---- MODULE Spec2Model ----
(***************************************************************************)
(* Air Guitar 4D: the gesture-to-music core.                               *)
(*                                                                         *)
(*   MotionAnalysis  (src/src/js/modules/motion-analysis.js)  variable ma  *)
(*   HandTracking    (src/src/js/modules/hand-tracking.js)    variable ht  *)
(*   AirGuitarApp    (src/unnamed/part_002, the revision of app.js that    *)
(*                    sets up the detector and the aggregator) variable app*)
(*                                                                         *)
(* Each object is one record variable whose fields carry the names of the  *)
(* JavaScript fields.  A JavaScript null/undefined is the empty tuple Null *)
(* and a present value v is the one-element tuple Some(v).  Fractions      *)
(* (intensity, confidence) are pairs <<numerator, denominator>>.           *)
(***************************************************************************)
EXTENDS Integers, Sequences, FiniteSets, TLC

VARIABLES
    ma,      \* the MotionAnalysis instance
    ht,      \* the HandTracking instance
    app,     \* the AirGuitarApp instance
    browser, \* the animation frames requested and the calls suspended at an await
    now,     \* Date.now(), milliseconds
    call,    \* the last call made: the function and its arguments
    ret,     \* what that call returned
    calls,   \* the callbacks that call invoked, in order
    strumLog \* the clock reading and outcome of the last calls of processHandData
             \* that carried a strum signal, oldest first

vars == <<ma, ht, app, browser, now, call, ret, calls, strumLog>>

----------------------------------------------------------------------------
(* Values *)

Null == <<>>
Some(v) == <<v>>
Val(o) == o[1]

\* obj.key in JavaScript: undefined when the object has no such property
Prop(obj, key) == IF key \in DOMAIN obj THEN obj[key] ELSE Null

Abs(n) == IF n < 0 THEN -n ELSE n
Min(a, b) == IF a < b THEN a ELSE b
Max(a, b) == IF a > b THEN a ELSE b

\* a JavaScript number: the fraction <<numerator, denominator>> with a positive
\* denominator, or NaN
Num(n) == <<n, 1>>
NaN == <<0, 0>>
IsNaN(a) == a[2] = 0

\* a < b, a === b (both false when either is NaN) and a !== b
NumLess(a, b) == ~IsNaN(a) /\ ~IsNaN(b) /\ a[1] * b[2] < b[1] * a[2]
NumEq(a, b) == ~IsNaN(a) /\ ~IsNaN(b) /\ a[1] * b[2] = b[1] * a[2]
NumNotEq(a, b) == ~NumEq(a, b)

\* a + b, a - b, a * b, Math.abs(a)
NumAdd(a, b) == IF IsNaN(a) \/ IsNaN(b) THEN NaN ELSE <<a[1] * b[2] + b[1] * a[2], a[2] * b[2]>>
NumSub(a, b) == IF IsNaN(a) \/ IsNaN(b) THEN NaN ELSE <<a[1] * b[2] - b[1] * a[2], a[2] * b[2]>>
NumMul(a, b) == IF IsNaN(a) \/ IsNaN(b) THEN NaN ELSE <<a[1] * b[1], a[2] * b[2]>>
NumAbs(a) == IF IsNaN(a) THEN NaN ELSE <<Abs(a[1]), a[2]>>

\* Math.min(a, b) and Math.max(a, b): NaN when either argument is NaN
MathMin(a, b) == IF IsNaN(a) \/ IsNaN(b) THEN NaN ELSE IF NumLess(b, a) THEN b ELSE a
MathMax(a, b) == IF IsNaN(a) \/ IsNaN(b) THEN NaN ELSE IF NumLess(a, b) THEN b ELSE a

Point(px, py) == [x |-> px, y |-> py]

\* FINGER_LANDMARKS.WRIST
WRIST == 0

\* a HandObservation as the detector returns it; keypoints[WRIST] is the wrist
Hand(label, wrist) == [handedness |-> label, keypoints |-> (WRIST :> wrist)]

RECURSIVE SumSeq(_)
\* array.reduce((sum, val) => sum + val, 0)
SumSeq(s) == IF s = <<>> THEN 0 ELSE s[1] + SumSeq(Tail(s))

----------------------------------------------------------------------------
(* Bounds of the model *)

\* the clock reading when the model starts; Date.now() is far above the cooldown
ClockStart == 1000
\* the clock stops advancing this many milliseconds after ClockStart
ClockSpan == 190
\* the steps by which the clock advances between calls
Ticks == {50, 70}

\* the overlay canvas (document.getElementById('overlay')): 160 x 120, diagonal 200
Canvas == [width |-> 160, height |-> 120]

----------------------------------------------------------------------------
(* MotionAnalysis *)

\* this.strumCooldown
strumCooldown == 120
\* this.smoothingWindow
smoothingWindow == 3

EmptyBuffers == [left |-> [x |-> <<>>, y |-> <<>>], right |-> [x |-> <<>>, y |-> <<>>]]

\* constructor()
MotionAnalysisNew ==
    [isActive |-> FALSE,
     lastHandData |-> Null,
     lastStrumTime |-> 0,
     lastDetectedChord |-> Null,
     lastFretPosition |-> 0,
     handPositions |-> EmptyBuffers,
     onStrumDetected |-> FALSE,      \* TRUE: a callback is registered
     onChordChanged |-> FALSE]

\* PushSample that drops the sample just pushed when the window is exceeded
PushSampleEvictingNewest(buf, position) ==
    IF Len(buf.x) >= smoothingWindow
    THEN buf
    ELSE [x |-> Append(buf.x, position.x), y |-> Append(buf.y, position.y)]

\* smoothMotion: the buffers of one hand after the push and the eviction
PushSample(buf, position) ==
    LET xs == Append(buf.x, position.x)
        ys == Append(buf.y, position.y)
    IN  IF Len(xs) > smoothingWindow
        THEN [x |-> Tail(xs), y |-> Tail(ys)]
        ELSE [x |-> xs, y |-> ys]

\* smoothMotion's return value: the arithmetic mean of the buffer, in sixths of
\* a pixel (6 * sum / length is a whole number for every length 1..3, so the
\* mean of a window of 3 is exact)
SmoothedPosition(buf) ==
    Point((6 * SumSeq(buf.x)) \div Len(buf.x), (6 * SumSeq(buf.y)) \div Len(buf.y))

\* smoothMotion(hand, position) on the aggregator m: the aggregator afterwards
\* and the value returned
SmoothMotionOn(m, hand, position) ==
    IF position = Null THEN [ma |-> m, value |-> Null]
    ELSE LET buf == PushSample(m.handPositions[hand], Val(position))
         IN  [ma |-> [m EXCEPT !.handPositions[hand] = buf],
              value |-> Some(SmoothedPosition(buf))]

\* distance^2 between the smoothed wrists, in units of 1/36 pixel^2:
\* Math.pow(strumWrist.x - fretWrist.x, 2) + Math.pow(strumWrist.y - fretWrist.y, 2)
DistanceSq(strumWrist, fretWrist) ==
    (strumWrist.x - fretWrist.x) * (strumWrist.x - fretWrist.x)
        + (strumWrist.y - fretWrist.y) * (strumWrist.y - fretWrist.y)

\* canvasWidth^2 + canvasHeight^2: maxPossibleDistance squared, in pixel^2
DiagonalSq(canvas) == canvas.width * canvas.width + canvas.height * canvas.height

\* normalizedDistance = Math.min(1, distance / (maxPossibleDistance * 0.7)) is 1
\* exactly when distance^2 >= 0.49 * diagonal^2 (dsq is in 1/36 pixel^2)
FullyOpen(dsq, canvas) == 100 * dsq >= 49 * 36 * DiagonalSq(canvas)

\* Math.round((1 - normalizedDistance) * 12) >= k, for k in 1..12:
\* (1 - n) * 12 >= k - 1/2  <=>  n <= (25 - 2k)/24
\*                          <=>  distance <= 0.7 * diagonal * (25 - 2k)/24
\*                          <=>  57600 * distance^2 <= 49 * (25 - 2k)^2 * diagonal^2
\*                          <=>  1600 * dsq <= 49 * (25 - 2k)^2 * diagonal^2
\* (Math.round rounds a half up)
RoundsToAtLeast(k, dsq, canvas) ==
    1600 * dsq <= 49 * (25 - 2 * k) * (25 - 2 * k) * DiagonalSq(canvas)

\* FretPosition without the inversion: Math.round(normalizedDistance * 12)
FretPositionNotInverted(dsq, canvas) ==
    IF FullyOpen(dsq, canvas)
    THEN 12
    ELSE 12 - Cardinality({k \in 1..12 : RoundsToAtLeast(k, dsq, canvas)})

\* Math.min(12, Math.max(0, Math.round((1 - normalizedDistance) * 12)))
FretPosition(dsq, canvas) ==
    IF FullyOpen(dsq, canvas)
    THEN 0
    ELSE Cardinality({k \in 1..12 : RoundsToAtLeast(k, dsq, canvas)})

\* ChordChanged without the test for 'Unknown'
ChordChangedAlsoUnknown(cached, chordData) ==
    /\ chordData # Null
    /\ (cached = Null \/ Val(cached).name # Val(chordData).name)

\* ChordChanged without the comparison with the cached chord
ChordChangedEveryFrame(cached, chordData) ==
    /\ chordData # Null
    /\ Val(chordData).name # "Unknown"

\* line 93-94: the incoming classification is a change of chord
ChordChanged(cached, chordData) ==
    /\ chordData # Null
    /\ Val(chordData).name # "Unknown"
    /\ (cached = Null \/ Val(cached).name # Val(chordData).name)

\* line 154: the cooldown period has passed
CooldownPassed(t, lastStrumTime) == t - lastStrumTime > strumCooldown

\* StrumTimeAfter with the timestamp also taken by a suppressed strum
StrumTimeAfterEveryStrum(strummingMotion, t, lastStrumTime) ==
    IF strummingMotion # Null THEN t ELSE lastStrumTime

\* line 150-161: this.lastStrumTime after the strum block
StrumTimeAfter(strummingMotion, t, lastStrumTime) ==
    IF strummingMotion # Null /\ CooldownPassed(t, lastStrumTime)
    THEN t
    ELSE lastStrumTime

\* FretBlock with the fret position dropped to 0 when a hand is missing
FretBlockResetting(m, handData) ==
    IF Prop(handData, "left") # Null /\ Prop(handData, "right") # Null
    THEN LET bufs == [left |-> PushSample(m.handPositions.left,
                                          Val(handData.left).keypoints[WRIST]),
                      right |-> PushSample(m.handPositions.right,
                                           Val(handData.right).keypoints[WRIST])]
         IN  [lastFretPosition |->
                  FretPosition(DistanceSq(SmoothedPosition(bufs.left),
                                          SmoothedPosition(bufs.right)), Canvas),
              handPositions |-> bufs]
    ELSE [lastFretPosition |-> 0, handPositions |-> m.handPositions]

\* line 110-147: lastFretPosition and the smoothing buffers after the fret block
FretBlock(m, handData) ==
    IF Prop(handData, "left") # Null /\ Prop(handData, "right") # Null
    THEN LET rawStrumWrist == Val(handData.left).keypoints[WRIST]
             rawFretWrist == Val(handData.right).keypoints[WRIST]
             bufs == [left |-> PushSample(m.handPositions.left, rawStrumWrist),
                      right |-> PushSample(m.handPositions.right, rawFretWrist)]
             distance == DistanceSq(SmoothedPosition(bufs.left),
                                    SmoothedPosition(bufs.right))
         IN  [lastFretPosition |-> FretPosition(distance, Canvas),
              handPositions |-> bufs]
    ELSE [lastFretPosition |-> m.lastFretPosition,
          handPositions |-> m.handPositions]

\* MotionResult as line 84-90 initialises it, the later assignments left out
MotionResultAsInitialised(m, strummingMotion, forwarded, fretPosition, chord) ==
    [strumDetected |-> FALSE,
     strumDirection |-> Null,
     strumIntensity |-> <<0, 1>>,
     fretPosition |-> m.lastFretPosition,
     chordType |-> IF m.lastDetectedChord # Null THEN Val(m.lastDetectedChord).name
                   ELSE "none"]

\* the result object when processHandData returns it: initialised at line 84-90
\* from the aggregator m, chordType assigned at line 97 on a chord change,
\* fretPosition at line 141 / 145, the strum fields at line 157-159 when the
\* strum is forwarded
MotionResult(m, strummingMotion, forwarded, fretPosition, chord) ==
    [strumDetected |-> forwarded,
     strumDirection |-> IF forwarded THEN Some(Val(strummingMotion).direction)
                        ELSE Null,
     strumIntensity |-> IF forwarded THEN Val(strummingMotion).intensity
                        ELSE <<0, 1>>,
     fretPosition |-> fretPosition,
     chordType |-> IF chord # Null THEN Val(chord).name ELSE "none"]

\* CallbacksInvoked with the strum callback invoked first
CallbacksInvokedStrumFirst(m, changed, chordData, forwarded, result) ==
    (IF forwarded /\ m.onStrumDetected
     THEN <<[callback |-> "onStrumDetected", arg |-> result]>>
     ELSE <<>>)
    \o
    (IF changed /\ m.onChordChanged
     THEN <<[callback |-> "onChordChanged", arg |-> Val(chordData)]>>
     ELSE <<>>)

\* the callbacks processHandData invokes, in order: onChordChanged(chordData)
\* at line 102 on a chord change, onStrumDetected(result) at line 166 for a
\* forwarded strum
CallbacksInvoked(m, changed, chordData, forwarded, result) ==
    (IF changed /\ m.onChordChanged
     THEN <<[callback |-> "onChordChanged", arg |-> Val(chordData)]>>
     ELSE <<>>)
    \o
    (IF forwarded /\ m.onStrumDetected
     THEN <<[callback |-> "onStrumDetected", arg |-> result]>>
     ELSE <<>>)

\* processHandData(handData, strummingMotion, chordData, orientations) on the
\* aggregator m at clock reading t: the aggregator afterwards, the value
\* returned and the callbacks invoked, in order
ProcessHandDataOn(m, handData, strummingMotion, chordData, t) ==
    IF ~m.isActive \/ handData = Null
    THEN [ma |-> m, value |-> Null, calls |-> <<>>]
    ELSE
    LET hd == Val(handData)
        changed == ChordChanged(m.lastDetectedChord, chordData)
        chord == IF changed THEN chordData ELSE m.lastDetectedChord
        fret == FretBlock(m, hd)
        forwarded == strummingMotion # Null /\ CooldownPassed(t, m.lastStrumTime)
        result == MotionResult(m, strummingMotion, forwarded, fret.lastFretPosition, chord)
    IN  [ma |-> [m EXCEPT !.lastHandData = handData,
                          !.lastDetectedChord = chord,
                          !.lastFretPosition = fret.lastFretPosition,
                          !.handPositions = fret.handPositions,
                          !.lastStrumTime = StrumTimeAfter(strummingMotion, t, @)],
         value |-> Some(result),
         calls |-> CallbacksInvoked(m, changed, chordData, forwarded, result)]

\* the strum-carrying calls remembered in strumLog
LogLength == 3

\* strumLog after a call at clock reading t that found lastStrumTime = before
\* and left lastStrumTime = after
LogStrum(log, strummingMotion, t, before, after, value) ==
    IF strummingMotion = Null \/ value = Null
    THEN log
    ELSE LET l == Append(log, [t |-> t, before |-> before, after |-> after,
                               strumDetected |-> Val(value).strumDetected])
         IN  IF Len(l) > LogLength THEN Tail(l) ELSE l

\* the log after reset(): of the calls before it, the last one is kept
LogReset(log) == IF log = <<>> THEN log ELSE <<log[Len(log)]>>

\* setup()
Setup ==
    /\ ma' = [ma EXCEPT !.isActive = TRUE]
    /\ call' = [fn |-> "MotionAnalysis.setup", args |-> <<>>]
    /\ ret' = Some(TRUE)
    /\ calls' = <<>>
    /\ UNCHANGED <<ht, app, browser, now, strumLog>>

\* setStrumCallback(callback)
SetStrumCallback ==
    /\ ma' = [ma EXCEPT !.onStrumDetected = TRUE]
    /\ call' = [fn |-> "setStrumCallback", args |-> <<>>]
    /\ ret' = Null
    /\ calls' = <<>>
    /\ UNCHANGED <<ht, app, browser, now, strumLog>>

\* setChordCallback(callback)
SetChordCallback ==
    /\ ma' = [ma EXCEPT !.onChordChanged = TRUE]
    /\ call' = [fn |-> "setChordCallback", args |-> <<>>]
    /\ ret' = Null
    /\ calls' = <<>>
    /\ UNCHANGED <<ht, app, browser, now, strumLog>>

\* a caller invokes processHandData(handData, strummingMotion, chordData, _)
ProcessHandData(handData, strummingMotion, chordData) ==
    LET r == ProcessHandDataOn(ma, handData, strummingMotion, chordData, now)
    IN  /\ ma' = r.ma
        /\ call' = [fn |-> "processHandData",
                    args |-> <<handData, strummingMotion, chordData>>]
        /\ ret' = r.value
        /\ calls' = r.calls
        /\ strumLog' = LogStrum(strumLog, strummingMotion, now,
                                ma.lastStrumTime, r.ma.lastStrumTime, r.value)
        /\ UNCHANGED <<ht, app, browser, now>>

\* a caller invokes smoothMotion(hand, position)
SmoothMotion(hand, position) ==
    LET r == SmoothMotionOn(ma, hand, position)
    IN  /\ ma' = r.ma
        /\ call' = [fn |-> "smoothMotion", args |-> <<hand, position>>]
        /\ ret' = r.value
        /\ calls' = <<>>
        /\ UNCHANGED <<ht, app, browser, now, strumLog>>

\* reset() that leaves the time of the last strum as it is
ResetKeepingStrumTime ==
    /\ ma' = [ma EXCEPT !.lastHandData = Null,
                        !.lastDetectedChord = Null,
                        !.lastFretPosition = 0,
                        !.handPositions = EmptyBuffers]
    /\ call' = [fn |-> "reset", args |-> <<>>]
    /\ ret' = Null
    /\ calls' = <<>>
    /\ strumLog' = LogReset(strumLog)
    /\ UNCHANGED <<ht, app, browser, now>>

\* reset()
Reset ==
    /\ ma' = [ma EXCEPT !.lastHandData = Null,
                        !.lastDetectedChord = Null,
                        !.lastFretPosition = 0,
                        !.lastStrumTime = 0,
                        !.handPositions = EmptyBuffers]
    /\ call' = [fn |-> "reset", args |-> <<>>]
    /\ ret' = Null
    /\ calls' = <<>>
    /\ strumLog' = LogReset(strumLog)
    /\ UNCHANGED <<ht, app, browser, now>>

\* time passes between calls
Tick ==
    \E dt \in Ticks :
        /\ now + dt <= ClockStart + ClockSpan
        /\ now' = now + dt
        /\ UNCHANGED <<ma, ht, app, browser, call, ret, calls, strumLog>>

----------------------------------------------------------------------------
(* HandTracking *)

\* STRUM_THRESHOLD
STRUM_THRESHOLD == 12

\* constructor(videoElement, canvasElement)
HandTrackingNew ==
    [detector |-> FALSE,             \* TRUE: a detector object is stored
     isRunning |-> FALSE,
     hands |-> [left |-> Null, right |-> Null],
     lastFrameHands |-> [left |-> Null, right |-> Null],
     lastDetectedChord |-> Null,
     lastStrumDirection |-> Null,
     strumDisplayTimeout |-> "none", \* no timer yet, a pending one, a fired one
     processingOptions |-> [flipHorizontal |-> TRUE],
     guitarPlaneAngle |-> Num(45),
     previousGuitarPlaneAngle |-> Null,  \* undefined until the angle changes
     displayedAngle |-> Null,            \* undefined until an animation starts
     angleAnimationId |-> FALSE,         \* TRUE: holds a handle (truthy)
     animateFrame |-> Null]              \* the animation callback requested, with
                                         \* the startAngle and targetAngle it closes over

\* strumInfo: Math.abs(yMovement) / 50 is kept as the fraction <<|yMovement|, 50>>
StrumInfo(dir, movement, wrist) ==
    [direction |-> dir, intensity |-> <<movement, 50>>, position |-> wrist]

\* StrumSignificant with the threshold itself counted as a strum
StrumSignificantInclusive(yMovement) == Abs(yMovement) >= STRUM_THRESHOLD

\* line 1076: Math.abs(yMovement) > STRUM_THRESHOLD
StrumSignificant(yMovement) == Abs(yMovement) > STRUM_THRESHOLD

\* NoSignal with the displayed strum direction cleared on the way out
NoSignalClearingDisplay(h) ==
    [ht |-> [h EXCEPT !.lastStrumDirection = Null], value |-> Null]

\* line 1064, 1100: return null
NoSignal(h) == [ht |-> h, value |-> Null]

\* detectStrummingMotion() on the tracker h: the tracker afterwards and the
\* value returned
DetectStrummingMotionOn(h) ==
    LET strummingHand == h.hands["left"]
        prevStrummingHand == h.lastFrameHands["left"]
    IN  IF strummingHand = Null \/ prevStrummingHand = Null
        THEN NoSignal(h)
        ELSE LET wrist == Val(strummingHand).keypoints[WRIST]
                 prevWrist == Val(prevStrummingHand).keypoints[WRIST]
                 yMovement == wrist.y - prevWrist.y
                 direction == IF yMovement > 0 THEN "down" ELSE "up"
             IN  IF StrumSignificant(yMovement)
                 THEN [ht |-> [h EXCEPT !.lastStrumDirection = Some(direction),
                                        !.strumDisplayTimeout = "pending"],
                       value |-> Some(StrumInfo(direction, Abs(yMovement), wrist))]
                 ELSE NoSignal(h)

\* a caller invokes detectStrummingMotion()
DetectStrummingMotion ==
    LET r == DetectStrummingMotionOn(ht)
    IN  /\ ht' = r.ht
        /\ call' = [fn |-> "detectStrummingMotion", args |-> <<>>]
        /\ ret' = r.value
        /\ calls' = <<>>
        /\ UNCHANGED <<ma, app, browser, now, strumLog>>

\* line 1093-1095: the timer set by detectStrummingMotion fires
StrumDisplayTimeoutFires ==
    /\ ht.strumDisplayTimeout = "pending"
    /\ ht' = [ht EXCEPT !.lastStrumDirection = Null, !.strumDisplayTimeout = "fired"]
    /\ call' = [fn |-> "strumDisplayTimeout", args |-> <<>>]
    /\ ret' = Null
    /\ calls' = <<>>
    /\ UNCHANGED <<ma, app, browser, now, strumLog>>

\* animateAngleChange()
AnimateAngleChangeOn(h) ==
    LET cancelled == IF h.angleAnimationId THEN [h EXCEPT !.animateFrame = Null] ELSE h
        previous == h.previousGuitarPlaneAngle
        startAngle == IF previous = Null \/ IsNaN(Val(previous)) \/ NumEq(Val(previous), Num(0))
                      THEN Num(0) ELSE Val(previous)
        targetAngle == h.guitarPlaneAngle
    IN  IF NumLess(NumAbs(NumSub(targetAngle, startAngle)), <<1, 10>>)
        THEN cancelled
        ELSE [cancelled EXCEPT !.displayedAngle = Some(startAngle),
                               !.angleAnimationId = TRUE,
                               !.animateFrame = Some([startAngle |-> startAngle,
                                                      targetAngle |-> targetAngle])]

\* Math.max(35, Math.min(90, angle))
ClampedAngle(angle) == MathMax(Num(35), MathMin(Num(90), angle))

\* setGuitarPlaneAngle(angle) on the tracker h: the tracker afterwards and the
\* value returned.  this.calculateGuitarPlanePoints is defined nowhere, so the
\* call at line 74 throws a TypeError and nothing is returned (value Null)
SetGuitarPlaneAngleOn(h, angle) ==
    LET clampedAngle == ClampedAngle(angle)
    IN  IF NumNotEq(clampedAngle, h.guitarPlaneAngle)
        THEN [ht |-> AnimateAngleChangeOn(
                        [h EXCEPT !.previousGuitarPlaneAngle = Some(h.guitarPlaneAngle),
                                  !.guitarPlaneAngle = clampedAngle]),
              value |-> Null]
        ELSE [ht |-> h, value |-> Some(h.guitarPlaneAngle)]

\* a caller (the angle slider) invokes setGuitarPlaneAngle(angle)
SetGuitarPlaneAngle(angle) ==
    LET r == SetGuitarPlaneAngleOn(ht, angle)
    IN  /\ ht' = r.ht
        /\ call' = [fn |-> "setGuitarPlaneAngle", args |-> <<angle>>]
        /\ ret' = r.value
        /\ calls' = <<>>
        /\ UNCHANGED <<ma, app, browser, now, strumLog>>

\* the browser runs animateFrame(timestamp), progress = min(elapsed / 300, 1)
\* of the animation having passed
AnimateFrame(progress) ==
    /\ ht.animateFrame # Null
    /\ LET startAngle == Val(ht.animateFrame).startAngle
           targetAngle == Val(ht.animateFrame).targetAngle
           rest == NumSub(Num(1), progress)
           easeOutProgress == NumSub(Num(1), NumMul(rest, rest))
           displayed == NumAdd(startAngle,
                               NumMul(NumSub(targetAngle, startAngle), easeOutProgress))
       IN  ht' = IF NumLess(progress, Num(1))
                 THEN [ht EXCEPT !.displayedAngle = Some(displayed)]
                 ELSE [ht EXCEPT !.displayedAngle = Some(targetAngle),
                                 !.angleAnimationId = FALSE,
                                 !.animateFrame = Null]
    /\ call' = [fn |-> "animateFrame", args |-> <<progress>>]
    /\ ret' = Null
    /\ calls' = <<>>
    /\ UNCHANGED <<ma, app, browser, now, strumLog>>

\* setup(): "ready" stores a detector (or finds the one stored) and returns
\* true; "unavailable" returns false (no video stream, no TensorFlow, no
\* hand-pose library); "failed" throws after the retries and the fallback
HandTrackingSetupOutcomes == {"ready", "unavailable", "failed"}
HandTrackingSetupOn(h, outcome) ==
    IF outcome = "ready"
    THEN [h EXCEPT !.detector = TRUE, !.isRunning = TRUE]
    ELSE h

\* processFrame(): the guards that return null before the detector is asked
ProcessFrameSkips(h, videoReady) == ~h.isRunning \/ ~h.detector \/ ~videoReady

\* processFrame(): the handedness corrected for mirroring
CorrectedHandedness(h, hand) ==
    IF h.processingOptions.flipHorizontal
    THEN (IF hand.handedness = "Left" THEN "Right" ELSE "Left")
    ELSE hand.handedness

\* setMirrored(isMirrored): the parameter is ignored, the view stays mirrored
SetMirrored(isMirrored) ==
    /\ ht' = [ht EXCEPT !.processingOptions.flipHorizontal = TRUE]
    /\ call' = [fn |-> "setMirrored", args |-> <<isMirrored>>]
    /\ ret' = Null
    /\ calls' = <<>>
    /\ UNCHANGED <<ma, app, browser, now, strumLog>>

\* processFrame(): the for loop leaves the last detected hand of each side
HandOfSide(h, detectedHands, side) ==
    LET found == {i \in 1..Len(detectedHands) :
                    CorrectedHandedness(h, detectedHands[i]) = side}
    IN  IF found = {} THEN Null
        ELSE Some(detectedHands[CHOOSE i \in found : \A j \in found : j <= i])

\* processFrame(): the handData returned when estimateHands resolved
HandDataOf(h, detectedHands, t) ==
    [leftHand |-> HandOfSide(h, detectedHands, "Left"),
     rightHand |-> HandOfSide(h, detectedHands, "Right"),
     bothHands |-> (Len(detectedHands) = 2),
     allHands |-> detectedHands,
     lastFrameTimestamp |-> t]

\* processFrame() with an error of estimateHands taken for an empty detection
ProcessFrameResultIgnoringError(h, detection, t) ==
    Some(HandDataOf(h, IF detection = Null THEN <<>> ELSE Val(detection), t))

\* processFrame() once estimateHands settled: the handData built from the hands
\* detected, or null from the catch block when it threw (detection = Null)
ProcessFrameResult(h, detection, t) ==
    IF detection = Null THEN Null ELSE Some(HandDataOf(h, Val(detection), t))

\* landmarks[i], undefined when the detector gave no such keypoint
Landmark(landmarks, i) == IF i \in DOMAIN landmarks THEN Some(landmarks[i]) ELSE Null

\* Math.tan(degreesToRadians(guitarPlaneAngle - 90)) at the plane angles where
\* it is an integer
TanOfPlane(angle) ==
    CASE NumEq(angle, Num(45)) -> -1
      [] NumEq(angle, Num(90)) -> 0
      [] NumEq(angle, Num(135)) -> 1

\* calculateDistance(point1, point2), squared
CalculateDistanceSq(h, point1, point2) ==
    IF point1 = Null \/ point2 = Null THEN 0
    ELSE LET Z(p) == IF "z" \in DOMAIN p THEN p.z ELSE 0
             Y(p) == p.y + p.x * TanOfPlane(h.guitarPlaneAngle)
             dx == Val(point2).x - Val(point1).x
             dy == Y(Val(point2)) - Y(Val(point1))
             dz == Z(Val(point2)) - Z(Val(point1))
         IN  dx * dx + dy * dy + dz * dz

\* ClassifyChord with the thresholds themselves counted as inside
ClassifyChordInclusive(indexToThumb, middleToThumb, ringToThumb) ==
    IF indexToThumb <= 2500 /\ middleToThumb >= 6400 /\ ringToThumb >= 6400
    THEN [name |-> "C Major", confidence |-> <<7, 10>>]
    ELSE IF indexToThumb >= 6400 /\ middleToThumb <= 2500 /\ ringToThumb >= 6400
    THEN [name |-> "G Major", confidence |-> <<6, 10>>]
    ELSE IF indexToThumb >= 6400 /\ middleToThumb >= 6400 /\ ringToThumb <= 2500
    THEN [name |-> "E Minor", confidence |-> <<65, 100>>]
    ELSE [name |-> "Unknown", confidence |-> <<3, 10>>]

\* detectChordFormation(): the chord for the squared distances of the index,
\* middle and ring tips from the thumb tip; a distance is < 50 when its square
\* is < 2500 and > 80 when its square is > 6400
ClassifyChord(indexToThumb, middleToThumb, ringToThumb) ==
    IF indexToThumb < 2500 /\ middleToThumb > 6400 /\ ringToThumb > 6400
    THEN [name |-> "C Major", confidence |-> <<7, 10>>]
    ELSE IF indexToThumb > 6400 /\ middleToThumb < 2500 /\ ringToThumb > 6400
    THEN [name |-> "G Major", confidence |-> <<6, 10>>]
    ELSE IF indexToThumb > 6400 /\ middleToThumb > 6400 /\ ringToThumb < 2500
    THEN [name |-> "E Minor", confidence |-> <<65, 100>>]
    ELSE [name |-> "Unknown", confidence |-> <<3, 10>>]

\* detectChordFormation() on the tracker h: the tracker afterwards and the
\* value returned
DetectChordFormationOn(h) ==
    LET chordHand == h.hands["right"]
    IN  IF chordHand = Null THEN [ht |-> h, value |-> Null]
        ELSE LET landmarks == Val(chordHand).keypoints
                 thumbTip == Landmark(landmarks, 4)
                 indexToThumb == CalculateDistanceSq(h, Landmark(landmarks, 8), thumbTip)
                 middleToThumb == CalculateDistanceSq(h, Landmark(landmarks, 12), thumbTip)
                 ringToThumb == CalculateDistanceSq(h, Landmark(landmarks, 16), thumbTip)
                 chord == ClassifyChord(indexToThumb, middleToThumb, ringToThumb)
             IN  [ht |-> [h EXCEPT !.lastDetectedChord = Some(chord)],
                  value |-> Some(chord)]

\* a caller invokes detectChordFormation()
DetectChordFormation ==
    LET r == DetectChordFormationOn(ht)
    IN  /\ ht' = r.ht
        /\ call' = [fn |-> "detectChordFormation", args |-> <<>>]
        /\ ret' = r.value
        /\ calls' = <<>>
        /\ UNCHANGED <<ma, app, browser, now, strumLog>>

\* Math.atan2(y, x) * (180 / Math.PI) for the directions along the axes and the
\* diagonals (180 stands for -180 too, which JavaScript gives for y = -0)
Atan2Deg(y, x) ==
    CASE y = 0 /\ x >= 0 -> Num(0)
      [] y = 0 /\ x < 0 -> Num(180)
      [] x = 0 /\ y > 0 -> Num(90)
      [] x = 0 /\ y < 0 -> Num(-90)
      [] y = x /\ x > 0 -> Num(45)
      [] y = -x /\ x > 0 -> Num(-45)
      [] y = -x /\ x < 0 -> Num(135)
      [] y = x /\ x < 0 -> Num(-135)

\* Math.atan2(y, Math.sqrt(a * a + b * b)) * (180 / Math.PI) where it is a
\* multiple of 45 degrees
Atan2OverNormDeg(y, a, b) ==
    CASE y = 0 -> Num(0)
      [] y # 0 /\ a * a + b * b = 0 -> IF y > 0 THEN Num(90) ELSE Num(-90)
      [] y # 0 /\ a * a + b * b = y * y -> IF y > 0 THEN Num(45) ELSE Num(-45)

\* { pitch: 0, roll: 0, yaw: 0 }
NeutralOrientation == [pitch |-> Num(0), roll |-> Num(0), yaw |-> Num(0)]

\* a - b for 3D points
Vector(a, b) == [x |-> a.x - b.x, y |-> a.y - b.y, z |-> a.z - b.z]

\* calculateHandOrientation: the landmark with y += x * Math.tan(angleRadians)
AdjustedLandmark(h, p) == [p EXCEPT !.y = @ + p.x * TanOfPlane(h.guitarPlaneAngle)]

\* calculateHandOrientation: wristToIndex, wristToPinky and their cross product
PalmVectors(h, landmarks) ==
    LET adjustedWrist == AdjustedLandmark(h, landmarks[WRIST])
        wristToIndex == Vector(AdjustedLandmark(h, landmarks[5]), adjustedWrist)
        wristToPinky == Vector(AdjustedLandmark(h, landmarks[17]), adjustedWrist)
    IN  [wristToIndex |-> wristToIndex,
         wristToPinky |-> wristToPinky,
         normal |-> [x |-> wristToIndex.y * wristToPinky.z - wristToIndex.z * wristToPinky.y,
                     y |-> wristToIndex.z * wristToPinky.x - wristToIndex.x * wristToPinky.z,
                     z |-> wristToIndex.x * wristToPinky.y - wristToIndex.y * wristToPinky.x]]

\* calculateHandOrientation: the angles from the normal divided by its
\* magnitude.  A magnitude of 0 makes every component 0 / 0 = NaN and
\* Math.atan2 of NaN is NaN; a positive magnitude does not change a direction
EulerAngles(v) ==
    IF v.normal.x = 0 /\ v.normal.y = 0 /\ v.normal.z = 0
    THEN [pitch |-> NaN,
          roll |-> NaN,
          yaw |-> Atan2Deg(v.wristToIndex.x, v.wristToIndex.y)]
    ELSE [pitch |-> Atan2Deg(v.normal.y, v.normal.z),
          roll |-> Atan2OverNormDeg(-v.normal.x, v.normal.y, v.normal.z),
          yaw |-> Atan2Deg(v.wristToIndex.x, v.wristToIndex.y)]

\* calculateHandOrientation(hand) on the tracker h
CalculateHandOrientationOn(h, hand) ==
    IF hand = Null \/ Prop(Val(hand), "keypoints3D") = Null
    THEN NeutralOrientation
    ELSE LET landmarks == Val(Val(hand).keypoints3D)
         IN  IF \E i \in {WRIST, 5, 17} : Landmark(landmarks, i) = Null
             THEN NeutralOrientation
             ELSE EulerAngles(PalmVectors(h, landmarks))

\* a caller (getHandOrientations) invokes calculateHandOrientation(hand)
CalculateHandOrientation(hand) ==
    /\ call' = [fn |-> "calculateHandOrientation", args |-> <<hand>>]
    /\ ret' = Some(CalculateHandOrientationOn(ht, hand))
    /\ calls' = <<>>
    /\ UNCHANGED <<ma, ht, app, browser, now, strumLog>>

----------------------------------------------------------------------------
(* AirGuitarApp and the browser that runs it *)

\* how many frame loops the model lets run side by side
MaxLoops == 2

\* the handles requestAnimationFrame hands out; one that is neither pending nor
\* stored in animationFrameId stands for a new one
Handles == 1..(MaxLoops + 1)

\* how many calls of WebcamHandler.setup() the model lets be in flight side by
\* side, and how many streams getUserMedia hands out
MaxSetupCalls == 2
MaxStreams == 2
SetupCalls == 1..MaxSetupCalls
Streams == 1..MaxStreams

\* new WebcamHandler(videoElement)
WebcamHandlerNew ==
    [stream |-> Null,
     isActive |-> FALSE,
     availableCameras |-> <<>>,
     selectedCameraId |-> Null,
     constraints |-> [video |-> [deviceId |-> Null]],
     isMirrored |-> TRUE]

\* constructor(), and the WebcamHandler that init() creates
AirGuitarAppNew ==
    [processingActive |-> FALSE, animationFrameId |-> Null,
     webcamHandler |-> WebcamHandlerNew]

\* no animation frame requested, no call of processVideoFrame suspended; the
\* video element has no source and no call of WebcamHandler.setup() or of
\* HandTracking.setup() is in flight; no stream has been handed out
BrowserIdle ==
    [requested |-> {},
     awaiting |-> [setup |-> 0, estimateHands |-> 0],
     video |-> [srcObject |-> Null, onloadedmetadata |-> Null, loading |-> FALSE],
     mediaDevices |-> [streams |-> 0, live |-> {}, loaded |-> {}],
     webcamSetup |-> [c \in SetupCalls |-> "idle"],
     switchTo |-> [c \in SetupCalls |-> Null],
     trackerSetup |-> [c \in SetupCalls |-> [awaits |-> "idle", attempts |-> 0]]]

\* the frame loops alive: each is a requested frame or a suspended call
Loops(b) == Cardinality(b.requested) + b.awaiting.setup + b.awaiting.estimateHands

\* startProcessing() with the activation of the aggregator left out
MotionAnalysisLeftAsIs(m) == m

\* startProcessing(): if (this.motionAnalysis && !this.motionAnalysis.isActive)
\* this.motionAnalysis.setup()
ActivateMotionAnalysis(m) == IF ~m.isActive THEN [m EXCEPT !.isActive = TRUE] ELSE m

\* init(): setStrumCallback((strumData) => this.soundEngine.playStrum(strumData))
\* the call of playStrum the registered callback makes, if it was invoked
StrumCallbackPlays(cbs) ==
    IF cbs # <<>> /\ cbs[Len(cbs)].callback = "onStrumDetected"
    THEN <<[callback |-> "playStrum", arg |-> cbs[Len(cbs)].arg]>>
    ELSE <<>>

\* processVideoFrame(): if (motionResult && motionResult.strumDetected)
\* this.soundEngine.playStrum(motionResult)
FramePlays(motionResult) ==
    IF motionResult # Null /\ Val(motionResult).strumDetected
    THEN <<[callback |-> "playStrum", arg |-> Val(motionResult)]>>
    ELSE <<>>

\* this.animationFrameId = requestAnimationFrame(() => this.processVideoFrame())
RequestNextFrame(a, b) ==
    LET h == CHOOSE n \in Handles : n \notin b.requested /\ Some(n) # a.animationFrameId
    IN  [app |-> [a EXCEPT !.animationFrameId = Some(h)],
         browser |-> [b EXCEPT !.requested = @ \cup {h}]]

\* processVideoFrame() reaches its last line: processFrame returned handData
\* after its call of estimateHands was "skipped", "resolved" or "rejected",
\* processHandData (if called) returned motionResult and cbs were invoked
FrameEnds(m, h, a, b, handData, estimate, strummingMotion, motionResult, cbs) ==
    LET n == RequestNextFrame(a, b)
    IN  /\ ma' = m
        /\ ht' = h
        /\ app' = n.app
        /\ browser' = n.browser
        /\ call' = [fn |-> "processVideoFrame", args |-> <<handData, estimate>>]
        /\ ret' = motionResult
        /\ calls' = cbs
        /\ strumLog' = LogStrum(strumLog, strummingMotion, now,
                                ma.lastStrumTime, m.lastStrumTime, motionResult)
        /\ UNCHANGED now

\* processVideoFrame() stops at an await; the handler that ran so far returns
Suspends(m, h, a, b, awaited, handler) ==
    /\ ma' = m
    /\ ht' = h
    /\ app' = a
    /\ browser' = [b EXCEPT !.awaiting[awaited] = @ + 1]
    /\ call' = [fn |-> handler, args |-> <<>>]
    /\ ret' = Null
    /\ calls' = <<>>
    /\ UNCHANGED <<now, strumLog>>

\* processVideoFrame() from "if (handData)" on, processFrame having returned
\* handData
FromHandData(m, h, a, b, handData, estimate) ==
    IF handData = Null
    THEN FrameEnds(m, h, a, b, Null, estimate, Null, Null, <<>>)
    ELSE LET s == DetectStrummingMotionOn(h)
             c == DetectChordFormationOn(s.ht)
             r == ProcessHandDataOn(m, handData, s.value, c.value, now)
         IN  FrameEnds(r.ma, c.ht, a, b, handData, estimate, s.value, r.value,
                       r.calls \o StrumCallbackPlays(r.calls) \o FramePlays(r.value))

\* processVideoFrame() from "await this.handTracking.processFrame()" on
FromProcessFrame(m, h, a, b, videoReady, handler) ==
    IF ProcessFrameSkips(h, videoReady)
    THEN FromHandData(m, h, a, b, Null, "skipped")
    ELSE Suspends(m, h, a, b, "estimateHands", handler)

\* processVideoFrame() from its first line
EntersFrame(m, h, a, b, videoReady, handler) ==
    IF ~a.processingActive
    THEN /\ ma' = m
         /\ ht' = h
         /\ app' = a
         /\ browser' = b
         /\ call' = [fn |-> handler, args |-> <<>>]
         /\ ret' = Null
         /\ calls' = <<>>
         /\ UNCHANGED <<now, strumLog>>
    ELSE IF ~h.isRunning
    THEN Suspends(m, h, a, b, "setup", handler)
    ELSE FromProcessFrame(m, h, a, b, videoReady, handler)

\* startProcessing()
StartProcessing ==
    IF app.processingActive
    THEN /\ call' = [fn |-> "startProcessing", args |-> <<>>]
         /\ ret' = Null
         /\ calls' = <<>>
         /\ UNCHANGED <<ma, ht, app, browser, now, strumLog>>
    ELSE /\ Loops(browser) < MaxLoops
         /\ \E videoReady \in BOOLEAN :
              EntersFrame(ActivateMotionAnalysis(ma), ht,
                          [app EXCEPT !.processingActive = TRUE], browser,
                          videoReady, "startProcessing")

\* stopProcessing()
StopProcessing ==
    /\ app' = [app EXCEPT !.processingActive = FALSE, !.animationFrameId = Null]
    /\ browser' = IF app.animationFrameId # Null
                  THEN [browser EXCEPT !.requested = @ \ {Val(app.animationFrameId)}]
                  ELSE browser
    /\ call' = [fn |-> "stopProcessing", args |-> <<>>]
    /\ ret' = Null
    /\ calls' = <<>>
    /\ UNCHANGED <<ma, ht, now, strumLog>>

\* the browser runs a requested animation frame: () => this.processVideoFrame()
AnimationFrame ==
    \E id \in browser.requested, videoReady \in BOOLEAN :
        EntersFrame(ma, ht, app, [browser EXCEPT !.requested = @ \ {id}],
                    videoReady, "animationFrame")

\* the await of handTracking.setup() in processVideoFrame settles
HandTrackingSetupSettles ==
    /\ browser.awaiting.setup > 0
    /\ \E outcome \in HandTrackingSetupOutcomes, videoReady \in BOOLEAN :
         FromProcessFrame(ma, HandTrackingSetupOn(ht, outcome), app,
                          [browser EXCEPT !.awaiting.setup = @ - 1],
                          videoReady, "HandTracking.setup")

\* the await of detector.estimateHands() in processFrame settles: with the
\* hands detected, or (detection = Null) with an error that processFrame
\* catches to return null
EstimateHandsSettles(detections) ==
    /\ browser.awaiting.estimateHands > 0
    /\ \E detection \in detections :
         FromHandData(ma, ht, app, [browser EXCEPT !.awaiting.estimateHands = @ - 1],
                      ProcessFrameResult(ht, detection, now),
                      IF detection = Null THEN "rejected" ELSE "resolved")

----------------------------------------------------------------------------
(* WebcamHandler, held by the application as this.webcamHandler *)

\* what a call of setup() settles with
Resolved(value) == Some([settled |-> "resolved", value |-> value])
Rejected(value) == Some([settled |-> "rejected", value |-> value])

\* handleError(error) that returns instead of throwing
HandleErrorReturning(error) == "returns"

\* handleError(error): whatever the error's name, it throws an Error with a
\* message for the user
HandleError(error) == "throws"

\* setup(): the catch block around the awaits, given the error caught
SetupCatches(error) ==
    IF HandleError(error) = "throws" THEN Rejected("Error") ELSE Resolved("false")

\* the call c of setup() settles with outcome after the step named by after
SetupSettles(w, b, c, after, outcome) ==
    /\ app' = [app EXCEPT !.webcamHandler = w]
    /\ browser' = [b EXCEPT !.webcamSetup[c] = "idle"]
    /\ call' = [fn |-> "WebcamHandler.setup settles", args |-> <<c, after>>]
    /\ ret' = outcome
    /\ calls' = <<>>
    /\ UNCHANGED <<ma, ht, now, strumLog>>

\* the call c of setup() stops at the await named by awaited
SetupAwaits(w, b, c, awaited, handler) ==
    /\ app' = [app EXCEPT !.webcamHandler = w]
    /\ browser' = [b EXCEPT !.webcamSetup[c] = awaited]
    /\ call' = [fn |-> handler, args |-> <<c>>]
    /\ ret' = Null
    /\ calls' = <<>>
    /\ UNCHANGED <<ma, ht, now, strumLog>>

\* a caller invokes setup(): without navigator.mediaDevices.getUserMedia it
\* throws at once, otherwise it awaits enumerateDevices()
WebcamSetup(c, compatible) ==
    /\ browser.webcamSetup[c] = "idle"
    /\ LET b == [browser EXCEPT !.switchTo[c] = Null]
       IN  IF ~compatible
           THEN SetupSettles(app.webcamHandler, b, c, "checkBrowserCompatibility",
                             Rejected("Error"))
           ELSE SetupAwaits(app.webcamHandler, b, c, "enumerateDevices",
                            "WebcamHandler.setup")

\* a camera id that JavaScript takes for true: neither null nor ''
Selected(id) == id # Null /\ Val(id) # ""

\* enumerateDevices() given what navigator.mediaDevices.enumerateDevices
\* settled with (devices = Null: it rejected, which is caught)
EnumerateDevicesOn(w, devices) ==
    IF devices = Null THEN w
    ELSE LET cameras == SelectSeq(Val(devices), LAMBDA d : d.kind = "videoinput")
         IN  [w EXCEPT !.availableCameras = cameras,
                       !.selectedCameraId =
                            IF Len(cameras) > 0 /\ ~Selected(w.selectedCameraId)
                            THEN Some(cameras[1].deviceId) ELSE @]

\* the await of enumerateDevices() in the call c of setup() settles; setup()
\* goes on to call getUserMedia with the constraints and awaits it
EnumerateDevicesSettles(c, devices) ==
    /\ browser.webcamSetup[c] = "enumerateDevices"
    /\ LET e == EnumerateDevicesOn(app.webcamHandler, devices)
           w == IF Selected(e.selectedCameraId)
                THEN [e EXCEPT !.constraints.video.deviceId = e.selectedCameraId]
                ELSE e
       IN  SetupAwaits(w, browser, c, "getUserMedia", "enumerateDevices settles")

\* the await of getUserMedia in the call c of setup() settles. Resolved with a
\* new stream: the stream is stored and attached to the video element, whose
\* onloadedmetadata handler becomes this call's, and setup() awaits it.
\* Rejected: the catch block hands the error to handleError
GetUserMediaSettles(c, resolves) ==
    /\ browser.webcamSetup[c] = "getUserMedia"
    /\ IF resolves
       THEN /\ browser.mediaDevices.streams < MaxStreams
            /\ LET stream == browser.mediaDevices.streams + 1
                   w == [app.webcamHandler EXCEPT !.stream = Some(stream)]
                   b == [browser EXCEPT
                            !.mediaDevices.streams = stream,
                            !.mediaDevices.live = @ \cup {stream},
                            !.video = [srcObject |-> Some(stream),
                                       onloadedmetadata |-> Some(c),
                                       loading |-> TRUE]]
               IN  SetupAwaits(w, b, c, "loadedmetadata", "getUserMedia settles")
       ELSE SetupSettles(app.webcamHandler, browser, c, "getUserMedia",
                         SetupCatches("NotAllowedError"))

\* the video element fires loadedmetadata for the stream attached to it; the
\* handler resolves the promise the call of setup() awaits, which sets
\* isActive and returns true
LoadedMetadata ==
    /\ browser.video.srcObject # Null
    /\ browser.video.loading
    /\ LET c == Val(browser.video.onloadedmetadata)
           b == [browser EXCEPT !.video.loading = FALSE,
                                !.mediaDevices.loaded = @ \cup {Val(browser.video.srcObject)}]
       IN  /\ browser.webcamSetup[c] = "loadedmetadata"
           /\ SetupSettles([app.webcamHandler EXCEPT !.isActive = TRUE], b, c,
                           "loadedmetadata", Resolved("true"))

\* stop() that leaves isActive as it is
WebcamStopLeavingActive(w, b) ==
    IF w.stream # Null
    THEN [webcamHandler |-> w,
          browser |-> [b EXCEPT !.mediaDevices.live = @ \ {Val(w.stream)},
                                !.video.srcObject = Null,
                                !.video.loading = FALSE]]
    ELSE [webcamHandler |-> w, browser |-> b]

\* stop() on the handler w in the browser b: with a stream, its tracks are
\* stopped, the video element loses its source (and no longer loads it) and
\* isActive is false
WebcamStopOn(w, b) ==
    IF w.stream # Null
    THEN [webcamHandler |-> [w EXCEPT !.isActive = FALSE],
          browser |-> [b EXCEPT !.mediaDevices.live = @ \ {Val(w.stream)},
                                !.video.srcObject = Null,
                                !.video.loading = FALSE]]
    ELSE [webcamHandler |-> w, browser |-> b]

\* a caller invokes switchCamera(deviceId): an active handler is stopped, the
\* camera is selected and setup() is called and awaited; the call c is that of
\* setup(), and switchCamera settles as it does
SwitchCamera(c, deviceId, compatible) ==
    /\ browser.webcamSetup[c] = "idle"
    /\ LET r == IF app.webcamHandler.isActive
                THEN WebcamStopOn(app.webcamHandler, browser)
                ELSE [webcamHandler |-> app.webcamHandler, browser |-> browser]
           w == [r.webcamHandler EXCEPT !.selectedCameraId = Some(deviceId)]
           b == [r.browser EXCEPT !.switchTo[c] = Some(deviceId)]
       IN  IF ~compatible
           THEN SetupSettles(w, b, c, "checkBrowserCompatibility", Rejected("Error"))
           ELSE SetupAwaits(w, b, c, "enumerateDevices", "WebcamHandler.switchCamera")

\* a caller invokes stop()
WebcamStop ==
    LET r == WebcamStopOn(app.webcamHandler, browser)
    IN  /\ app' = [app EXCEPT !.webcamHandler = r.webcamHandler]
        /\ browser' = r.browser
        /\ call' = [fn |-> "WebcamHandler.stop", args |-> <<>>]
        /\ ret' = Null
        /\ calls' = <<>>
        /\ UNCHANGED <<ma, ht, now, strumLog>>

----------------------------------------------------------------------------
(* HandTracking.setup(), await by await *)

\* what one call of handPoseDetection.createDetector settles with: a detector,
\* no detector (null or undefined), or a rejection; the race of the primary
\* attempts with the 10 s timer rejects as well
CreateDetectorOutcomes == {"detector", "nothing", "rejects"}

\* the names declared in the try block that creates the detector, in a catch
\* block of setup(), and around both (the method, the module, the globals)
TryBlockNames ==
    {"model", "config", "updatedConfig", "attempts", "createDetectorWithTimeout",
     "detectorCreated"}
CatchBlockNames == {"error", "fallbackConfig", "fallbackError"}
EnclosingNames == {"this", "window", "console", "FINGER_LANDMARKS"}

\* an identifier used in a block resolves when the block or what encloses it
\* declares it
Resolves(name, blockNames) == name \in blockNames \cup EnclosingNames

\* the recovery of a catch block of setup() where the names of blockNames are
\* declared: createDetector(model, fallbackConfig) is called when its
\* arguments can be evaluated, and fallback is what it then settles with. A
\* detector is stored and setup() returns true; otherwise (the arguments throw
\* a ReferenceError, createDetector rejects, or it gives no detector) the
\* block throws 'Hand tracking setup failed'
FallbackOn(h, blockNames, fallback) ==
    IF ~Resolves("model", blockNames)
    THEN [ht |-> h, outcome |-> Rejected("Error"), createDetectorCalled |-> FALSE]
    ELSE CASE fallback = "detector" ->
                [ht |-> [h EXCEPT !.detector = TRUE, !.isRunning = TRUE],
                 outcome |-> Resolved("true"), createDetectorCalled |-> TRUE]
           [] fallback = "nothing" ->
                [ht |-> [h EXCEPT !.detector = FALSE],
                 outcome |-> Rejected("Error"), createDetectorCalled |-> TRUE]
           [] OTHER ->
                [ht |-> h, outcome |-> Rejected("Error"), createDetectorCalled |-> TRUE]

\* the call c of setup() settles with outcome after the step named by after;
\* fallback is what createDetector settles with for the fallback configuration
\* ("unasked" where no catch block ran)
TrackerSetupSettles(h, b, c, after, fallback, outcome) ==
    /\ ht' = h
    /\ browser' = [b EXCEPT !.trackerSetup[c] = [awaits |-> "idle", attempts |-> 0]]
    /\ call' = [fn |-> "HandTracking.setup settles", args |-> <<c, after, fallback>>]
    /\ ret' = outcome
    /\ calls' = <<>>
    /\ UNCHANGED <<ma, app, now, strumLog>>

\* the call c of setup() stops at the await named by awaited, having made
\* attempts attempts with the primary configuration
TrackerSetupAwaits(h, b, c, awaited, attempts, handler) ==
    /\ ht' = h
    /\ browser' = [b EXCEPT !.trackerSetup[c] = [awaits |-> awaited, attempts |-> attempts]]
    /\ call' = [fn |-> handler, args |-> <<c>>]
    /\ ret' = Null
    /\ calls' = <<>>
    /\ UNCHANGED <<ma, app, now, strumLog>>

\* an error reaches the inner catch block of setup(): it tries the fallback,
\* and when that throws, the outer catch block tries it again
InnerCatch(h, b, c, fallback) ==
    LET inner == FallbackOn(h, CatchBlockNames, fallback)
        outer == FallbackOn(inner.ht, CatchBlockNames, fallback)
    IN  IF inner.outcome = Resolved("true")
        THEN TrackerSetupSettles(inner.ht, b, c, "catch", fallback, inner.outcome)
        ELSE TrackerSetupSettles(outer.ht, b, c, "catch", fallback, outer.outcome)

\* an error reaches the outer catch block of setup() only
OuterCatch(h, b, c, fallback) ==
    LET outer == FallbackOn(h, CatchBlockNames, fallback)
    IN  TrackerSetupSettles(outer.ht, b, c, "catch", fallback, outer.outcome)

\* setup() with a detector stored: the test detection is awaited when the
\* video has data, and then, or at once, isRunning is set and setup() returns
\* true
TestDetection(h, b, c, videoReady, handler) ==
    IF videoReady
    THEN TrackerSetupAwaits(h, b, c, "estimateHands", b.trackerSetup[c].attempts, handler)
    ELSE TrackerSetupSettles([h EXCEPT !.isRunning = TRUE], b, c, "createDetector",
                             "unasked", Resolved("true"))

\* a caller invokes setup(): without a stream on the video element or without
\* window.tf it returns false, otherwise it awaits tf.ready()
HandTrackingSetup(c, tfAvailable) ==
    /\ browser.trackerSetup[c].awaits = "idle"
    /\ IF browser.video.srcObject = Null
       THEN TrackerSetupSettles(ht, browser, c, "videoElement", "unasked", Resolved("false"))
       ELSE IF ~tfAvailable
            THEN TrackerSetupSettles(ht, browser, c, "window.tf", "unasked", Resolved("false"))
            ELSE TrackerSetupAwaits(ht, browser, c, "tf.ready", 0, "HandTracking.setup")

\* tf.ready() settles in the call c: a rejection goes to the outer catch
\* block; a detector that exists is reused; without the handPoseDetection
\* library setup() returns false; otherwise the first attempt is awaited
TfReadySettles(c, resolves, libraryLoaded, fallback) ==
    /\ browser.trackerSetup[c].awaits = "tf.ready"
    /\ IF ~resolves THEN OuterCatch(ht, browser, c, fallback)
       ELSE IF ht.detector
            THEN TrackerSetupSettles([ht EXCEPT !.isRunning = TRUE], browser, c,
                                     "tf.ready", "unasked", Resolved("true"))
       ELSE IF ~libraryLoaded
            THEN TrackerSetupSettles(ht, browser, c, "handPoseDetection", "unasked",
                                     Resolved("false"))
       ELSE TrackerSetupAwaits(ht, browser, c, "createDetector", 1, "tf.ready settles")

\* an attempt of the call c with the primary configuration settles. A
\* detector is stored and tested; no detector is stored too, and the loop waits
\* 500 ms; a rejection of the third attempt is thrown to the inner catch block,
\* an earlier one makes the loop wait 1000 ms
CreateDetectorSettles(c, outcome, videoReady, fallback) ==
    /\ browser.trackerSetup[c].awaits = "createDetector"
    /\ LET attempts == browser.trackerSetup[c].attempts
       IN  CASE outcome = "detector" ->
                    TestDetection([ht EXCEPT !.detector = TRUE], browser, c, videoReady,
                                  "createDetector settles")
             [] outcome = "nothing" ->
                    TrackerSetupAwaits([ht EXCEPT !.detector = FALSE], browser, c,
                                       "delay", attempts, "createDetector settles")
             [] OTHER ->
                    IF attempts >= 3
                    THEN InnerCatch(ht, browser, c, fallback)
                    ELSE TrackerSetupAwaits(ht, browser, c, "delay", attempts,
                                            "createDetector settles")

\* the delay of the retry loop of the call c is over: below three attempts
\* the next one is made; after the third the loop ends, and the detector is
\* tested if this.detector holds one, else a creation with the minimal
\* configuration is awaited
RetryDelaySettles(c, videoReady) ==
    /\ browser.trackerSetup[c].awaits = "delay"
    /\ LET attempts == browser.trackerSetup[c].attempts
       IN  IF attempts < 3
           THEN TrackerSetupAwaits(ht, browser, c, "createDetector", attempts + 1,
                                   "delay settles")
           ELSE IF ~ht.detector
                THEN TrackerSetupAwaits(ht, browser, c, "createDetector minimal", attempts,
                                        "delay settles")
                ELSE TestDetection(ht, browser, c, videoReady, "delay settles")

\* the creation with the minimal configuration settles in the call c: a
\* detector is stored and tested; no detector is stored and an error thrown;
\* a rejection is thrown as it is
MinimalCreateDetectorSettles(c, outcome, videoReady, fallback) ==
    /\ browser.trackerSetup[c].awaits = "createDetector minimal"
    /\ CASE outcome = "detector" ->
                TestDetection([ht EXCEPT !.detector = TRUE], browser, c, videoReady,
                              "createDetector minimal settles")
         [] outcome = "nothing" ->
                InnerCatch([ht EXCEPT !.detector = FALSE], browser, c, fallback)
         [] OTHER -> InnerCatch(ht, browser, c, fallback)

\* the test detection of the call c settles; whether it resolved or rejected,
\* isRunning is set and setup() returns true
TestDetectionSettles(c) ==
    /\ browser.trackerSetup[c].awaits = "estimateHands"
    /\ TrackerSetupSettles([ht EXCEPT !.isRunning = TRUE], browser, c, "estimateHands",
                           "unasked", Resolved("true"))

----------------------------------------------------------------------------
(* The inputs a caller of processHandData is checked with *)

\* the strumming hand's wrist (role "left") and the fretting hand's (role
\* "right"): at distance 0, 100, 145 and 140 = 0.7 * diagonal from each other
StrumWrist == Point(10, 4)
FretWrists == {Point(10, 4), Point(110, 4), Point(155, 4), Point(94, 116)}

HandDatas ==
    {[left |-> Null, right |-> Null],
     [left |-> Some(Hand("Right", StrumWrist)), right |-> Null]}
    \cup {[left |-> l, right |-> Some(Hand("Left", w))] :
            l \in {Null, Some(Hand("Right", StrumWrist))}, w \in FretWrists}

StrummingMotions ==
    {Null, Some(StrumInfo("down", 30, StrumWrist)), Some(StrumInfo("up", 13, StrumWrist))}

ChordDatas ==
    {Null,
     Some([name |-> "Unknown", confidence |-> <<3, 10>>]),
     Some([name |-> "C Major", confidence |-> <<7, 10>>]),
     Some([name |-> "G Major", confidence |-> <<6, 10>>]),
     Some([name |-> "E Minor", confidence |-> <<65, 100>>])}

NoCall == [fn |-> "none", args |-> <<>>]

InitMA ==
    /\ ma = MotionAnalysisNew
    /\ ht = HandTrackingNew
    /\ app = AirGuitarAppNew
    /\ browser = BrowserIdle
    /\ now = ClockStart
    /\ call = NoCall
    /\ ret = Null
    /\ calls = <<>>
    /\ strumLog = <<>>

\* the operations of MotionAnalysis, processHandData with its arguments drawn
\* from the given sets
NextMA(handDatas, strummingMotions, chordDatas) ==
    \/ Setup
    \/ SetStrumCallback
    \/ SetChordCallback
    \/ \E hd \in handDatas, sm \in strummingMotions, cd \in chordDatas :
            ProcessHandData(hd, sm, cd)
    \/ Reset

OneHand == [left |-> Some(Hand("Right", StrumWrist)), right |-> Null]

\* MotionAnalysis driven by a caller that varies the strum signal and the time
NextCooldown == NextMA({Some(OneHand)}, StrummingMotions, {Null}) \/ Tick
SpecCooldown == InitMA /\ [][NextCooldown]_vars

\* MotionAnalysis driven by a caller that varies the chord classification
NextChord == NextMA({Some(OneHand)}, {Null}, ChordDatas)
SpecChord == InitMA /\ [][NextChord]_vars

\* MotionAnalysis driven by a caller that varies the strum signal, the chord
\* classification and the time, and resets between the calls
NextReset ==
    \/ NextMA({Some(OneHand)},
              {Null, Some(StrumInfo("down", 30, StrumWrist))},
              {Null,
               Some([name |-> "Unknown", confidence |-> <<3, 10>>]),
               Some([name |-> "C Major", confidence |-> <<7, 10>>])})
    \/ Tick
SpecReset == InitMA /\ [][NextReset]_vars

\* the positions smoothMotion is called with: none, and three wrists whose
\* means over two and three samples are not whole numbers
SmoothPositions == {Null, Some(Point(10, 4)), Some(Point(11, 4)), Some(Point(94, 116))}

NextSmooth ==
    \/ \E hand \in {"left", "right"}, position \in SmoothPositions :
            SmoothMotion(hand, position)
    \/ Reset

\* smoothMotion called for either hand in any order, with resets between
SpecSmooth == InitMA /\ [][NextSmooth]_vars

\* the hands of a frame: the strumming hand alone, or with the fretting hand
\* 100 pixels from it
ResultHands ==
    {Some(OneHand),
     Some([left |-> Some(Hand("Right", StrumWrist)),
           right |-> Some(Hand("Left", Point(110, 4)))])}

\* MotionAnalysis driven by a caller that varies the hands, the strum signal
\* and the chord classification together
NextResult ==
    NextMA(ResultHands,
           {Null, Some(StrumInfo("down", 30, StrumWrist)), Some(StrumInfo("up", 13, StrumWrist))},
           {Null,
            Some([name |-> "Unknown", confidence |-> <<3, 10>>]),
            Some([name |-> "C Major", confidence |-> <<7, 10>>]),
            Some([name |-> "G Major", confidence |-> <<6, 10>>])})
SpecResult == InitMA /\ [][NextResult]_vars

\* MotionAnalysis driven by a caller that varies the hands and their wrists
NextFret == NextMA({Null} \cup {Some(h) : h \in HandDatas}, {Null}, {Null})
SpecFret == InitMA /\ [][NextFret]_vars

\* the wrist heights the snapshots of the strumming hand are drawn from: moves
\* of 0, 1, 12, 13, 17, 18, 25, 26, 30, 43, 47, 48, 60 and 73 pixels either way
WristYs == {257, 270, 282, 283, 300, 330}
StrumHands == {Null} \cup {Some(Hand("Right", Point(100, y))) : y \in WristYs}

\* what an earlier strum may have left behind: nothing, a direction on display
\* with its timer pending, or a fired timer
StrumDisplays ==
    {<<Null, "none">>, <<Some("up"), "pending">>, <<Some("down"), "pending">>,
     <<Null, "fired">>}

\* detectStrummingMotion reads this.hands and this.lastFrameHands; no method of
\* HandTracking assigns them after the constructor, so the snapshots of the
\* strumming role are drawn here as the inputs of the function
InitStrumDetect ==
    /\ \E cur \in StrumHands, prev \in StrumHands, d \in StrumDisplays :
         ht = [HandTrackingNew EXCEPT !.hands.left = cur,
                                      !.lastFrameHands.left = prev,
                                      !.lastStrumDirection = d[1],
                                      !.strumDisplayTimeout = d[2]]
    /\ ma = MotionAnalysisNew
    /\ app = AirGuitarAppNew
    /\ browser = BrowserIdle
    /\ now = ClockStart
    /\ call = NoCall
    /\ ret = Null
    /\ calls = <<>>
    /\ strumLog = <<>>

NextStrumDetect ==
    \/ DetectStrummingMotion
    \/ StrumDisplayTimeoutFires

\* detectStrummingMotion on every pair of snapshots of the strumming hand
SpecStrumDetect == InitStrumDetect /\ [][NextStrumDetect]_vars

\* what the detector reports in a frame: an error, no hand, the strumming hand
\* (the model's 'Right', shown as 'Left' in the mirrored view) at two heights
\* 30 pixels apart, and both hands
Detections ==
    {Null,
     Some(<<>>),
     Some(<<Hand("Right", Point(100, 270))>>),
     Some(<<Hand("Right", Point(100, 300))>>),
     Some(<<Hand("Right", Point(100, 300)), Hand("Left", Point(40, 280))>>)}

\* the application after init(): the strum callback is registered, the view is
\* mirrored, nothing is set up or running yet
InitApp ==
    /\ ma = [MotionAnalysisNew EXCEPT !.onStrumDetected = TRUE]
    /\ ht = HandTrackingNew
    /\ app = AirGuitarAppNew
    /\ browser = BrowserIdle
    /\ now = ClockStart
    /\ call = NoCall
    /\ ret = Null
    /\ calls = <<>>
    /\ strumLog = <<>>

NextApp ==
    \/ StartProcessing
    \/ StopProcessing
    \/ AnimationFrame
    \/ HandTrackingSetupSettles
    \/ EstimateHandsSettles(Detections)
    \/ Tick

\* the frame loop of the application
SpecApp == InitApp /\ [][NextApp]_vars

\* the frame loop under the browser's scheduling: a requested animation frame
\* that is not cancelled is eventually delivered, and an awaited promise
\* eventually settles
SpecAppFair ==
    /\ SpecApp
    /\ WF_vars(AnimationFrame)
    /\ WF_vars(HandTrackingSetupSettles)
    /\ WF_vars(EstimateHandsSettles(Detections))

\* the application after init() with the tracker's snapshots of the strumming
\* hand drawn as for detectStrummingMotion (no method assigns them): the wrist
\* has not moved, or has moved down by 30 pixels
InitAppStrum ==
    /\ ma = [MotionAnalysisNew EXCEPT !.onStrumDetected = TRUE]
    /\ \E prev \in {Point(100, 270), Point(100, 300)} :
         ht = [HandTrackingNew EXCEPT
                  !.hands.left = Some(Hand("Right", Point(100, 300))),
                  !.lastFrameHands.left = Some(Hand("Right", prev))]
    /\ app = AirGuitarAppNew
    /\ browser = BrowserIdle
    /\ now = ClockStart
    /\ call = NoCall
    /\ ret = Null
    /\ calls = <<>>
    /\ strumLog = <<>>

NextAppStrum ==
    \/ StartProcessing
    \/ StopProcessing
    \/ AnimationFrame
    \/ HandTrackingSetupSettles
    \/ EstimateHandsSettles({Null, Some(<<Hand("Right", Point(100, 300))>>)})
    \/ StrumDisplayTimeoutFires

\* the frame loop over a tracker whose snapshots make detectStrummingMotion
\* report a strum
SpecAppStrum == InitAppStrum /\ [][NextAppStrum]_vars

\* what the detector answers where the roles matter: no hand, one hand of
\* either label, two hands of different labels in either order, and two hands
\* the detector gave the same label
RoleDetections ==
    {Some(<<>>),
     Some(<<Hand("Left", Point(40, 280))>>),
     Some(<<Hand("Right", Point(100, 300))>>),
     Some(<<Hand("Right", Point(100, 300)), Hand("Left", Point(40, 280))>>),
     Some(<<Hand("Left", Point(40, 280)), Hand("Right", Point(100, 300))>>),
     Some(<<Hand("Left", Point(40, 280)), Hand("Left", Point(100, 300))>>),
     Some(<<Hand("Right", Point(40, 280)), Hand("Right", Point(100, 300))>>)}

NextRoles ==
    \/ StartProcessing
    \/ StopProcessing
    \/ AnimationFrame
    \/ HandTrackingSetupSettles
    \/ EstimateHandsSettles(RoleDetections)
    \/ \E isMirrored \in BOOLEAN : SetMirrored(isMirrored)

\* the frame loop with the mirror checkbox toggled between the frames
SpecRoles == InitApp /\ [][NextRoles]_vars

\* the arguments setGuitarPlaneAngle is called with: NaN (parseInt of a value
\* that is no number), values below, inside and above the range, and 45.05
PlaneAngles ==
    {NaN, Num(0), Num(34), Num(35), Num(45), <<901, 20>>, Num(60), Num(90), Num(91)}

\* how far an animation has got when one of its frames runs
AnimationProgress == {<<1, 2>>, Num(1)}

NextPlaneAngle ==
    \/ \E angle \in PlaneAngles : SetGuitarPlaneAngle(angle)
    \/ \E progress \in AnimationProgress : AnimateFrame(progress)

\* the plane angle set by its slider and animated by the browser
SpecPlaneAngle == InitMA /\ [][NextPlaneAngle]_vars

\* 3D landmarks: the wrist, and the index base and pinky base at these offsets
\* from it
Point3(px, py, pz) == [x |-> px, y |-> py, z |-> pz]
Wrists3 == {Point3(0, 0, 0), Point3(10, 5, 0)}
Offsets3 ==
    {Point3(0, 0, 0), Point3(1, 0, 0), Point3(2, 0, 0), Point3(0, 1, 0),
     Point3(0, -1, 0), Point3(0, 0, 1)}
Moved(p, d) == Point3(p.x + d.x, p.y + d.y, p.z + d.z)

\* the hands calculateHandOrientation is called with: none, one without 3D
\* keypoints, one without the pinky base, and the three landmarks in every
\* combination of the positions above
OrientationHands ==
    {Null,
     Some(Hand("Right", Point(100, 270))),
     Some([handedness |-> "Right", keypoints |-> (WRIST :> Point(100, 270)),
           keypoints3D |-> Some(WRIST :> Point3(0, 0, 0) @@ 5 :> Point3(1, 0, 0))])}
    \cup {Some([handedness |-> "Right", keypoints |-> (WRIST :> Point(100, 270)),
                keypoints3D |-> Some(WRIST :> w @@ 5 :> Moved(w, i) @@ 17 :> Moved(w, p))]) :
            w \in Wrists3, i \in Offsets3, p \in Offsets3}

NextOrientation ==
    \/ \E angle \in {Num(45), Num(90)} : SetGuitarPlaneAngle(angle)
    \/ \E hand \in OrientationHands : CalculateHandOrientation(hand)

\* calculateHandOrientation under the plane angles 45 and 90
SpecOrientation == InitMA /\ [][NextOrientation]_vars

\* where the tips of the index, middle and ring finger are, the thumb tip
\* being at (20, 10): at distance 0, 50, 60, 80, 100 and 141 from it under the
\* plane angle 90, and 0, 32, 60, 51, 100 and 100 under 45
ThumbTip == Point(20, 10)
TipOffsets == {Point(0, 0), Point(30, 40), Point(0, 60), Point(48, 64), Point(0, 100),
               Point(100, 100)}

\* a hand whose finger tips are all 100 from the thumb tip
SpreadHand ==
    [handedness |-> "Left",
     keypoints |-> (WRIST :> Point(40, 280) @@ 4 :> ThumbTip
                    @@ 8 :> Point(ThumbTip.x, ThumbTip.y + 100)
                    @@ 12 :> Point(ThumbTip.x, ThumbTip.y + 100)
                    @@ 16 :> Point(ThumbTip.x, ThumbTip.y + 100)
                    @@ 20 :> Point(ThumbTip.x, ThumbTip.y + 120))]

\* the hand without the landmark i
Without(hand, i) ==
    [hand EXCEPT !.keypoints = [k \in DOMAIN hand.keypoints \ {i} |-> hand.keypoints[k]]]

\* the snapshots of the fretting hand: none, a hand of which the detector gave
\* the wrist only, the spread hand with one tip missing, and the finger tips in
\* every combination of these positions
ChordHands ==
    {Null, Some(Hand("Left", Point(40, 280)))}
    \cup {Some(Without(SpreadHand, i)) : i \in {4, 8, 12, 16}}
    \cup {Some([handedness |-> "Left",
                keypoints |-> (WRIST :> Point(40, 280) @@ 4 :> ThumbTip
                               @@ 8 :> Point(ThumbTip.x + i.x, ThumbTip.y + i.y)
                               @@ 12 :> Point(ThumbTip.x + m.x, ThumbTip.y + m.y)
                               @@ 16 :> Point(ThumbTip.x + r.x, ThumbTip.y + r.y)
                               @@ 20 :> Point(ThumbTip.x, ThumbTip.y + 120))]) :
            i \in TipOffsets, m \in TipOffsets, r \in TipOffsets}

\* detectChordFormation reads this.hands, which no method of HandTracking
\* assigns after the constructor: the snapshot of the fretting role is drawn
\* here as the input of the function
InitChordDetect ==
    /\ \E hand \in ChordHands : ht = [HandTrackingNew EXCEPT !.hands.right = hand]
    /\ ma = MotionAnalysisNew
    /\ app = AirGuitarAppNew
    /\ browser = BrowserIdle
    /\ now = ClockStart
    /\ call = NoCall
    /\ ret = Null
    /\ calls = <<>>
    /\ strumLog = <<>>

NextChordDetect ==
    \/ DetectChordFormation
    \/ \E angle \in {Num(45), Num(90)} : SetGuitarPlaneAngle(angle)

\* detectChordFormation on every snapshot of the fretting hand, under the plane
\* angles 45 and 90
SpecChordDetect == InitChordDetect /\ [][NextChordDetect]_vars

\* what navigator.mediaDevices.enumerateDevices settles with: a rejection, no
\* camera, or a microphone and two cameras
DeviceLists ==
    {Null,
     Some(<<[kind |-> "audioinput", deviceId |-> "mic1"]>>),
     Some(<<[kind |-> "videoinput", deviceId |-> "camera1"],
            [kind |-> "audioinput", deviceId |-> "mic1"],
            [kind |-> "videoinput", deviceId |-> "camera2"]>>)}

NextWebcam ==
    \/ \E c \in SetupCalls, compatible \in BOOLEAN : WebcamSetup(c, compatible)
    \/ \E c \in SetupCalls, devices \in DeviceLists : EnumerateDevicesSettles(c, devices)
    \/ \E c \in SetupCalls, resolves \in BOOLEAN : GetUserMediaSettles(c, resolves)
    \/ LoadedMetadata
    \/ WebcamStop

\* the callers of setup() and stop(), and the browser settling what setup()
\* awaits
SpecWebcam == InitMA /\ [][NextWebcam]_vars

\* the camera ids switchCamera is called with: those of the two cameras, and
\* the empty id a browser reports before the permission is granted
SwitchIds == {"camera1", "camera2", ""}

NextSwitch ==
    \/ \E c \in SetupCalls, deviceId \in SwitchIds, compatible \in BOOLEAN :
            SwitchCamera(c, deviceId, compatible)
    \/ \E c \in SetupCalls, devices \in DeviceLists : EnumerateDevicesSettles(c, devices)
    \/ \E c \in SetupCalls, resolves \in BOOLEAN : GetUserMediaSettles(c, resolves)
    \/ LoadedMetadata
    \/ WebcamStop

\* the camera select changed while the camera starts, runs or is stopped
SpecSwitch == InitMA /\ [][NextSwitch]_vars

\* the application after the camera was started: WebcamHandler.setup() has
\* attached the first stream to the video element the tracker reads
InitTracker ==
    /\ ma = MotionAnalysisNew
    /\ ht = HandTrackingNew
    /\ app = [AirGuitarAppNew EXCEPT !.webcamHandler.stream = Some(1),
                                     !.webcamHandler.isActive = TRUE]
    /\ browser = [BrowserIdle EXCEPT
                    !.video = [srcObject |-> Some(1), onloadedmetadata |-> Some(1),
                               loading |-> FALSE],
                    !.mediaDevices = [streams |-> 1, live |-> {1}, loaded |-> {1}]]
    /\ now = ClockStart
    /\ call = NoCall
    /\ ret = Null
    /\ calls = <<>>
    /\ strumLog = <<>>

NextTracker ==
    \/ \E c \in SetupCalls, tfAvailable \in BOOLEAN : HandTrackingSetup(c, tfAvailable)
    \/ \E c \in SetupCalls, resolves \in BOOLEAN, libraryLoaded \in BOOLEAN,
          fallback \in CreateDetectorOutcomes :
            TfReadySettles(c, resolves, libraryLoaded, fallback)
    \/ \E c \in SetupCalls, outcome \in CreateDetectorOutcomes, videoReady \in BOOLEAN,
          fallback \in CreateDetectorOutcomes :
            CreateDetectorSettles(c, outcome, videoReady, fallback)
    \/ \E c \in SetupCalls, videoReady \in BOOLEAN : RetryDelaySettles(c, videoReady)
    \/ \E c \in SetupCalls, outcome \in CreateDetectorOutcomes, videoReady \in BOOLEAN,
          fallback \in CreateDetectorOutcomes :
            MinimalCreateDetectorSettles(c, outcome, videoReady, fallback)
    \/ \E c \in SetupCalls : TestDetectionSettles(c)
    \/ WebcamStop

\* the callers of HandTracking.setup(), and the browser settling what it
\* awaits
SpecTracker == InitTracker /\ [][NextTracker]_vars

----------------------------------------------------------------------------
(* Claims about MotionAnalysis *)

\* the arguments of a call of processHandData
ArgHandData(c) == c.args[1]
ArgStrummingMotion(c) == c.args[2]
ArgChordData(c) == c.args[3]

\* the call c was processHandData
IsProcessHandData(c) == c.fn = "processHandData"

\* the number of invocations of callback cb among cs
Invocations(cs, cb) == Cardinality({i \in 1..Len(cs) : cs[i].callback = cb})

\* three successive strum-carrying calls e1, e2, e3 as C1 describes them, with
\* no reset() between them: the cooldown had elapsed at t1, t2 - t1 is below it
\* and t3 - t1 above it
CooldownScenario(e1, e2, e3) ==
    /\ e2.before = e1.after /\ e3.before = e2.after
    /\ e1.t - e1.before > strumCooldown
    /\ e1.t < e2.t /\ e2.t < e3.t
    /\ e2.t - e1.t < strumCooldown
    /\ e3.t - e1.t > strumCooldown

\* C1: of three successive calls carrying a strum signal at t1 < t2 < t3, with
\* the cooldown elapsed at t1, t2 - t1 < strumCooldown and t3 - t1 >
\* strumCooldown, the first returns strumDetected = true, the second returns
\* strumDetected = false and leaves lastStrumTime = t1, the third returns
\* strumDetected = true.
C1_StrumCooldown ==
    \A i \in 1..(Len(strumLog) - 2) :
        LET e1 == strumLog[i]
            e2 == strumLog[i + 1]
            e3 == strumLog[i + 2]
        IN  CooldownScenario(e1, e2, e3) =>
                /\ e1.strumDetected
                /\ ~e2.strumDetected
                /\ e2.after = e1.t
                /\ e3.strumDetected

\* the three calls of C1 have been made
C1_Witness ==
    /\ Len(strumLog) >= 3
    /\ LET n == Len(strumLog)
       IN  /\ CooldownScenario(strumLog[n - 2], strumLog[n - 1], strumLog[n])
           /\ strumLog[n].strumDetected
           /\ ~strumLog[n - 1].strumDetected
           /\ ma.lastStrumTime = strumLog[n].t

\* C6: the cached chord is never 'Unknown'; a call whose classification is
\* 'Unknown' or absent leaves a cached chord as it is, and the result of that
\* call reports the cached chord's name.
C6_UnknownKeepsChord ==
    /\ [](ma.lastDetectedChord # Null => Val(ma.lastDetectedChord).name # "Unknown")
    /\ [][(/\ IsProcessHandData(call')
           /\ ma.lastDetectedChord # Null
           /\ \/ ArgChordData(call') = Null
              \/ Val(ArgChordData(call')).name = "Unknown")
          => /\ ma'.lastDetectedChord = ma.lastDetectedChord
             /\ ret' # Null =>
                    Val(ret').chordType = Val(ma.lastDetectedChord).name]_vars

\* an 'Unknown' classification has arrived after a known chord was cached
C6_Witness ==
    /\ IsProcessHandData(call)
    /\ ArgChordData(call) # Null
    /\ Val(ArgChordData(call)).name = "Unknown"
    /\ ret # Null
    /\ Val(ret).chordType = "C Major"
    /\ ma.lastDetectedChord # Null
    /\ Val(ma.lastDetectedChord).name = "C Major"

\* C7: with a chord callback registered, a call that processes hand data invokes
\* it (once, with the classification) if and only if the classification is
\* present, is not 'Unknown' and differs in name from the cached chord, or no
\* chord is cached; a call that processes nothing invokes nothing; the same
\* known chord on two successive calls is not announced by the second.
C7_ChordCallback ==
    [][IsProcessHandData(call') =>
        LET cd == ArgChordData(call')
            isChange == /\ cd # Null
                        /\ Val(cd).name # "Unknown"
                        /\ \/ ma.lastDetectedChord = Null
                           \/ Val(ma.lastDetectedChord).name # Val(cd).name
            expected == IF ret' # Null /\ ma.onChordChanged /\ isChange
                        THEN <<[callback |-> "onChordChanged", arg |-> Val(cd)]>>
                        ELSE <<>>
        IN  /\ SelectSeq(calls', LAMBDA c : c.callback = "onChordChanged") = expected
            /\ (/\ IsProcessHandData(call)
                /\ ret # Null
                /\ cd # Null
                /\ Val(cd).name # "Unknown"
                /\ ArgChordData(call) = cd)
               => Invocations(calls', "onChordChanged") = 0]_vars

\* a known chord has arrived that is the cached one: no callback, though one is
\* registered
C7_Witness ==
    /\ IsProcessHandData(call)
    /\ ma.onChordChanged
    /\ ret # Null
    /\ ArgChordData(call) # Null
    /\ Val(ArgChordData(call)).name = "G Major"
    /\ ma.lastDetectedChord = ArgChordData(call)
    /\ calls = <<>>

\* the call c passed hand data with both hands
BothHands(c) ==
    /\ IsProcessHandData(c)
    /\ ArgHandData(c) # Null
    /\ Val(ArgHandData(c)).left # Null
    /\ Val(ArgHandData(c)).right # Null

\* the call c passed hand data with fewer than two hands
FewerThanTwoHands(c) ==
    /\ IsProcessHandData(c)
    /\ ArgHandData(c) # Null
    /\ \/ Val(ArgHandData(c)).left = Null
       \/ Val(ArgHandData(c)).right = Null

\* the squared distance of the smoothed wrists held by the buffers of m, in
\* 1/36 pixel^2
BufferedDistanceSq(m) ==
    DistanceSq(SmoothedPosition(m.handPositions.left),
               SmoothedPosition(m.handPositions.right))

HasSamples(m) == m.handPositions.left.x # <<>> /\ m.handPositions.right.x # <<>>

\* C9: after a call with both hands the fret position is an integer in 0..12,
\* it is 0 when the wrist distance d is at least 0.7 * diagonal and 12 when
\* d = 0 (on the 160 x 120 canvas: 3 at d = 100, 8 at d = 50, 2 at d = 122.5);
\* and from one both-hands call to the next a distance that is not larger
\* gives a fret that is not smaller, and the other way round.
C9_FretMapping ==
    /\ [](BothHands(call) /\ ret # Null =>
            LET d == BufferedDistanceSq(ma)
                f == Val(ret).fretPosition
            IN  /\ f \in 0..12
                /\ f = ma.lastFretPosition
                /\ 100 * d >= 49 * 36 * DiagonalSq(Canvas) => f = 0
                /\ d = 0 => f = 12
                /\ DiagonalSq(Canvas) = 40000 =>
                       /\ d = 600 * 600 => f = 3
                       /\ d = 300 * 300 => f = 8
                       /\ d = 735 * 735 => f = 2)
    /\ [][BothHands(call') /\ ret' # Null /\ HasSamples(ma) =>
            /\ BufferedDistanceSq(ma') <= BufferedDistanceSq(ma)
                   => ma'.lastFretPosition >= ma.lastFretPosition
            /\ BufferedDistanceSq(ma') >= BufferedDistanceSq(ma)
                   => ma'.lastFretPosition <= ma.lastFretPosition]_vars

\* a both-hands call at the smoothed distance 122.5, where (1 - n) * 12 = 1.5
C9_Witness ==
    /\ BothHands(call)
    /\ ret # Null
    /\ BufferedDistanceSq(ma) = 735 * 735
    /\ Val(ret).fretPosition = 2

\* C10: a call whose hand data holds fewer than two hands leaves
\* lastFretPosition and both smoothing buffers as they are and returns the
\* fret position held before the call, which is the one the last call with
\* both hands computed from the buffers.
C10_FretRetained ==
    /\ [][FewerThanTwoHands(call') /\ ret' # Null =>
            /\ ma'.lastFretPosition = ma.lastFretPosition
            /\ ma'.handPositions = ma.handPositions
            /\ Val(ret').fretPosition = ma.lastFretPosition]_vars
    /\ [](FewerThanTwoHands(call) /\ ret # Null /\ HasSamples(ma) =>
            Val(ret).fretPosition = FretPosition(BufferedDistanceSq(ma), Canvas))

\* only the fretting hand is visible after a frame with both hands gave fret 8
C10_Witness ==
    /\ FewerThanTwoHands(call)
    /\ Val(ArgHandData(call)).left = Null
    /\ Val(ArgHandData(call)).right # Null
    /\ ret # Null
    /\ HasSamples(ma)
    /\ Val(ret).fretPosition = 8

----------------------------------------------------------------------------
(* Claims about HandTracking.detectStrummingMotion *)

IsDetectStrummingMotion(c) == c.fn = "detectStrummingMotion"

\* the strumming hand is in both snapshots of the tracker h
StrumHandInBoth(h) == h.hands.left # Null /\ h.lastFrameHands.left # Null

\* current.y - previous.y of the strumming hand's wrist
WristMovement(h) ==
    Val(h.hands.left).keypoints[WRIST].y - Val(h.lastFrameHands.left).keypoints[WRIST].y

\* C3: detectStrummingMotion returns null for every pair of wrists with
\* |current.y - previous.y| <= STRUM_THRESHOLD, equality included.
C3_NoStrumUpToThreshold ==
    (/\ IsDetectStrummingMotion(call)
     /\ StrumHandInBoth(ht)
     /\ Abs(WristMovement(ht)) <= STRUM_THRESHOLD)
    => ret = Null

\* a call with the wrist moved by exactly the threshold returned null
C3_Witness ==
    /\ IsDetectStrummingMotion(call)
    /\ StrumHandInBoth(ht)
    /\ WristMovement(ht) = -STRUM_THRESHOLD
    /\ ret = Null

\* C4: every strum signal has direction 'down' exactly when yMovement > 0 and
\* 'up' otherwise, and intensity clamp(|yMovement| / 50, 0, 1), so never more
\* than 1.
C4_DirectionAndClampedIntensity ==
    (IsDetectStrummingMotion(call) /\ ret # Null) =>
        LET i == Val(ret).intensity
        IN  /\ Val(ret).direction = (IF WristMovement(ht) > 0 THEN "down" ELSE "up")
            /\ i[1] * 50 = Min(Abs(WristMovement(ht)), 50) * i[2]
            /\ i[1] <= i[2]

\* C5: with the strumming hand absent from the current or the previous
\* snapshot, detectStrummingMotion returns null and changes nothing in the
\* tracker (lastStrumDirection and the display timer included).
C5_NoSignalWithoutHand ==
    [][(IsDetectStrummingMotion(call') /\ ~StrumHandInBoth(ht)) =>
            /\ ret' = Null
            /\ ht' = ht]_vars

\* the hand is in the current snapshot only, an earlier strum is still on
\* display, and the call returned null
C5_Witness ==
    /\ IsDetectStrummingMotion(call)
    /\ ht.hands.left # Null
    /\ ht.lastFrameHands.left = Null
    /\ ret = Null
    /\ ht.lastStrumDirection = Some("down")
    /\ ht.strumDisplayTimeout = "pending"

----------------------------------------------------------------------------
(* Claims about the frame pipeline of the application *)

\* a call of processVideoFrame ran to its last line; its argument is what
\* processFrame returned to it
IsFrame(c) == c.fn = "processVideoFrame"
FrameHandData(c) == c.args[1]
FrameHasHandData(c) == IsFrame(c) /\ FrameHandData(c) # Null

\* the hand of the strumming role (this.hands.left, the 'Left' of the mirrored
\* view) in what processFrame returned
StrumHandOf(c) == Val(FrameHandData(c)).leftHand
StrumWristOf(c) == Val(StrumHandOf(c)).keypoints[WRIST]

\* the step completes a frame: every completed frame stores a new handle
FrameCompletes == IsFrame(call') /\ app'.animationFrameId # app.animationFrameId

\* C2: for two consecutive processed frames with the strumming-role hand in
\* both and its wrist more than STRUM_THRESHOLD apart in y, the cooldown
\* elapsed, the second frame produces one MotionResult with strumDetected and
\* invokes the registered strum callback exactly once.
C2_OneStrumPerTransition ==
    [][(/\ FrameHasHandData(call)
        /\ FrameCompletes
        /\ FrameHasHandData(call')
        /\ StrumHandOf(call) # Null
        /\ StrumHandOf(call') # Null
        /\ Abs(StrumWristOf(call').y - StrumWristOf(call).y) > STRUM_THRESHOLD
        /\ CooldownPassed(now, ma.lastStrumTime))
       => /\ ret' # Null
          /\ Val(ret').strumDetected
          /\ Invocations(calls', "onStrumDetected") = 1]_vars

\* C8: every frame of the running loop for which processFrame returned hand
\* data has a MotionResult from processHandData, with strumDetected = false
\* when no strum was forwarded in the frame.
C8_FrameHasMotionResult ==
    FrameHasHandData(call) =>
        /\ ret # Null
        /\ (Invocations(calls, "onStrumDetected") = 0 => ~Val(ret).strumDetected)

\* a frame in which the detector saw a hand ended with a MotionResult that
\* reports no strum
C8_Witness ==
    /\ FrameHasHandData(call)
    /\ app.processingActive
    /\ StrumHandOf(call) # Null
    /\ ret # Null
    /\ ~Val(ret).strumDetected
    /\ calls = <<>>

\* the step is the settling of an awaited estimateHands
EstimateSettles == browser'.awaiting.estimateHands < browser.awaiting.estimateHands

\* what became of the frame's call of estimateHands
FrameEstimate(c) == c.args[2]

\* the calls of processVideoFrame in flight and the frame callbacks pending
InFlight(b) == b.awaiting.setup + b.awaiting.estimateHands
Pending(b) == Cardinality(b.requested)

\* C11: under every interleaving of startProcessing, stopProcessing, frame
\* callbacks and completions of the awaited detector call, at most one call of
\* processVideoFrame is in flight, at most one frame callback is pending, and
\* there are never two frame loops.
C11_SingleFrameLoop ==
    /\ InFlight(browser) <= 1
    /\ Pending(browser) <= 1
    /\ Loops(browser) <= 1

\* C12: when estimateHands settles after stopProcessing, the frame's hand data
\* is discarded: no MotionResult, no callback, no change of the aggregator.
C12_LateResultDiscarded ==
    [][(EstimateSettles /\ ~app.processingActive) =>
            /\ ret' = Null
            /\ calls' = <<>>
            /\ ma' = ma]_vars

\* C13: when estimateHands throws, processFrame returns null, the frame has no
\* MotionResult and changes nothing in the aggregator, and while processing is
\* active the next frame is requested.
C13_DetectorErrorSkipsFrame ==
    [][(EstimateSettles /\ IsFrame(call') /\ FrameEstimate(call') = "rejected") =>
            /\ FrameHandData(call') = Null
            /\ ret' = Null
            /\ calls' = <<>>
            /\ ma' = ma
            /\ (app.processingActive =>
                    /\ app'.animationFrameId # Null
                    /\ Val(app'.animationFrameId) \in browser'.requested)]_vars

\* the aggregator has processed a frame, the detector then threw in the
\* running loop, and the next frame is requested
C13_Witness ==
    /\ IsFrame(call)
    /\ FrameEstimate(call) = "rejected"
    /\ ret = Null
    /\ ma.lastHandData # Null
    /\ app.processingActive
    /\ app.animationFrameId # Null
    /\ Val(app.animationFrameId) \in browser.requested

----------------------------------------------------------------------------
(* Claims about the configuration of HandTracking *)

IsSetGuitarPlaneAngle(c) == c.fn = "setGuitarPlaneAngle"

\* C14: after any sequence of setGuitarPlaneAngle calls guitarPlaneAngle lies
\* in [35, 90], each call returns the stored angle, and a call whose clamped
\* argument equals the current angle changes nothing in the tracker.
C14_PlaneAngleClamped ==
    /\ [](/\ ~NumLess(ht.guitarPlaneAngle, Num(35))
          /\ ~NumLess(Num(90), ht.guitarPlaneAngle)
          /\ ~IsNaN(ht.guitarPlaneAngle)
          /\ (IsSetGuitarPlaneAngle(call) => ret = Some(ht.guitarPlaneAngle)))
    /\ [][(IsSetGuitarPlaneAngle(call')
           /\ NumEq(ClampedAngle(call'.args[1]), ht.guitarPlaneAngle))
          => ht' = ht]_vars

IsCalculateHandOrientation(c) == c.fn = "calculateHandOrientation"

\* the hand of the call has the three landmarks and, after the plane-angle
\* adjustment, the normal of its palm has magnitude zero
ZeroPalmNormal(h, c) ==
    /\ c.args[1] # Null
    /\ Prop(Val(c.args[1]), "keypoints3D") # Null
    /\ LET landmarks == Val(Val(c.args[1]).keypoints3D)
       IN  /\ \A i \in {WRIST, 5, 17} : i \in DOMAIN landmarks
           /\ PalmVectors(h, landmarks).normal = Point3(0, 0, 0)

\* C15: calculateHandOrientation returns the neutral orientation {pitch: 0,
\* roll: 0, yaw: 0}, dividing nothing by zero, whenever the adjusted wrist,
\* index base and pinky base are collinear or coincide.
C15_NeutralOnDegenerateHand ==
    (IsCalculateHandOrientation(call) /\ ZeroPalmNormal(ht, call))
        => ret = Some(NeutralOrientation)

IsDetectChordFormation(c) == c.fn = "detectChordFormation"

\* the squared thumb-to-index, thumb-to-middle and thumb-to-ring distances of
\* the fretting hand of the tracker h
TipDistancesSq(h) ==
    LET landmarks == Val(h.hands.right).keypoints
        D(i) == CalculateDistanceSq(h, Landmark(landmarks, i), Landmark(landmarks, 4))
    IN  [i |-> D(8), m |-> D(12), r |-> D(16)]

\* the three rules of the chord table
RuleCMajor(d) == d.i < 2500 /\ d.m > 6400 /\ d.r > 6400
RuleGMajor(d) == d.i > 6400 /\ d.m < 2500 /\ d.r > 6400
RuleEMinor(d) == d.i > 6400 /\ d.m > 6400 /\ d.r < 2500

\* C16: detectChordFormation returns null without a fretting hand; otherwise
\* 'C Major' (0.7) iff i < 50, m > 80, r > 80, 'G Major' (0.6) iff i > 80,
\* m < 50, r > 80, 'E Minor' (0.65) iff i > 80, m > 80, r < 50, and 'Unknown'
\* (0.3) for every other combination; no input matches two rules.
C16_ChordTable ==
    IsDetectChordFormation(call) =>
        IF ht.hands.right = Null THEN ret = Null
        ELSE LET d == TipDistancesSq(ht)
             IN  /\ ret # Null
                 /\ Val(ret) \in {[name |-> "C Major", confidence |-> <<7, 10>>],
                                  [name |-> "G Major", confidence |-> <<6, 10>>],
                                  [name |-> "E Minor", confidence |-> <<65, 100>>],
                                  [name |-> "Unknown", confidence |-> <<3, 10>>]}
                 /\ (Val(ret).name = "C Major" <=> RuleCMajor(d))
                 /\ (Val(ret).name = "G Major" <=> RuleGMajor(d))
                 /\ (Val(ret).name = "E Minor" <=> RuleEMinor(d))
                 /\ (Val(ret).name = "Unknown"
                        <=> ~(RuleCMajor(d) \/ RuleGMajor(d) \/ RuleEMinor(d)))
                 /\ ~(RuleCMajor(d) /\ RuleGMajor(d))
                 /\ ~(RuleCMajor(d) /\ RuleEMinor(d))
                 /\ ~(RuleGMajor(d) /\ RuleEMinor(d))

\* a hand whose index tip is exactly 50 from the thumb tip, the middle and ring
\* tips being far: the call answered 'Unknown'
C16_Witness ==
    /\ IsDetectChordFormation(call)
    /\ ht.hands.right # Null
    /\ {4, 8, 12, 16} \subseteq DOMAIN Val(ht.hands.right).keypoints
    /\ TipDistancesSq(ht).i = 2500
    /\ TipDistancesSq(ht).m > 6400
    /\ TipDistancesSq(ht).r > 6400
    /\ ret = Some([name |-> "Unknown", confidence |-> <<3, 10>>])

\* C17: in every processed frame, after any sequence of setMirrored calls, each
\* detected hand is stored under its mirror-corrected role: a hand the detector
\* labels 'Left' is rightHand, a hand labelled 'Right' is leftHand.
C17_EachHandUnderCorrectedRole ==
    FrameHasHandData(call) =>
        LET handData == Val(FrameHandData(call))
        IN  \A i \in 1..Len(handData.allHands) :
                LET hand == handData.allHands[i]
                IN  /\ hand.handedness = "Left" => handData.rightHand = Some(hand)
                    /\ hand.handedness = "Right" => handData.leftHand = Some(hand)

\* reset() has just run (or only time has passed since)
IsReset(c) == c.fn = "reset"

\* what reset() does to the aggregator: the cross-frame state is the
\* constructor's, isActive and the callbacks are what they were
ResetEffect ==
    IsReset(call') =>
        /\ ma'.lastHandData = Null
        /\ ma'.lastDetectedChord = Null
        /\ ma'.lastFretPosition = 0
        /\ ma'.lastStrumTime = 0
        /\ ma'.handPositions.left = [x |-> <<>>, y |-> <<>>]
        /\ ma'.handPositions.right = [x |-> <<>>, y |-> <<>>]
        /\ ma'.isActive = ma.isActive
        /\ ma'.onStrumDetected = ma.onStrumDetected
        /\ ma'.onChordChanged = ma.onChordChanged

\* the first call after reset() that processes hand data and carries a strum
\* signal forwards it, whenever the last strum was
FirstStrumAfterReset ==
    (IsReset(call) /\ IsProcessHandData(call') /\ ret' # Null
        /\ ArgStrummingMotion(call') # Null)
    => /\ Val(ret').strumDetected
       /\ ma'.lastStrumTime = now
       /\ ma.onStrumDetected => Invocations(calls', "onStrumDetected") = 1

\* the chord the call c brings: its classification when that is present and not
\* 'Unknown'
BringsChord(c) == ArgChordData(c) # Null /\ Val(ArgChordData(c)).name # "Unknown"

\* C18 as stated: reset() returns lastHandData, the cached chord,
\* lastFretPosition, lastStrumTime and both smoothing buffers to their initial
\* values and leaves isActive and the callbacks unchanged; the first strum
\* signal after reset is forwarded, and the next result reports chordType
\* 'none'.
C18_ResetThenChordNone ==
    [][/\ ResetEffect
       /\ FirstStrumAfterReset
       /\ (IsReset(call) /\ IsProcessHandData(call') /\ ret' # Null)
            => Val(ret').chordType = "none"]_vars

\* C18 amended: as above, but the next result reports chordType 'none' only
\* when its call brings no chord; when the call brings a chord other than
\* 'Unknown', the result reports that chord.
C18_ResetForgetsCrossFrameState ==
    [][/\ ResetEffect
       /\ FirstStrumAfterReset
       /\ (IsReset(call) /\ IsProcessHandData(call') /\ ret' # Null)
            => Val(ret').chordType = (IF BringsChord(call')
                                      THEN Val(ArgChordData(call')).name
                                      ELSE "none")]_vars

\* a strum was forwarded, reset() ran, and less than the cooldown after the
\* first strum a second one was forwarded, its result reporting chordType 'none'
C18_Witness ==
    /\ IsProcessHandData(call)
    /\ ret # Null
    /\ Val(ret).strumDetected
    /\ Val(ret).chordType = "none"
    /\ Invocations(calls, "onStrumDetected") = 1
    /\ Len(strumLog) >= 2
    /\ LET e1 == strumLog[Len(strumLog) - 1]
           e2 == strumLog[Len(strumLog)]
       IN  /\ e1.strumDetected
           /\ e1.after = e1.t
           /\ e2.before = 0
           /\ e2.t = now
           /\ e1.t < e2.t
           /\ e2.t - e1.t < strumCooldown

----------------------------------------------------------------------------
(* Claims about WebcamHandler *)

\* a call of setup() has settled; c.args[2] names the step it settled after
SetupSettled(c) == c.fn = "WebcamHandler.setup settles"
IsWebcamStop(c) == c.fn = "WebcamHandler.stop"

\* the step settles the call c of setup() that was awaiting awaited
SettlesFrom(c, awaited) ==
    browser.webcamSetup[c] = awaited /\ browser'.webcamSetup[c] = "idle"

\* C19: when getUserMedia resolves and the video metadata loads, setup()
\* resolves true and isActive is true; when getUserMedia rejects, setup()
\* rejects with an error and isActive is what it was, false on an inactive
\* handler; setup() never resolves false.
C19_SetupResolvesTrueOrRejects ==
    /\ [](SetupSettled(call) /\ Val(ret).settled = "resolved" => Val(ret).value = "true")
    /\ [][\A c \in SetupCalls :
            /\ SettlesFrom(c, "loadedmetadata") =>
                    /\ ret' = Resolved("true")
                    /\ app'.webcamHandler.isActive
            /\ SettlesFrom(c, "getUserMedia") =>
                    /\ ret' = Rejected("Error")
                    /\ app'.webcamHandler.isActive = app.webcamHandler.isActive]_vars

\* getUserMedia rejected on a handler that never had a stream: setup() has
\* rejected and the handler is inactive
C19_Witness ==
    /\ SetupSettled(call)
    /\ call.args[2] = "getUserMedia"
    /\ ret = Rejected("Error")
    /\ app.webcamHandler.stream = Null
    /\ ~app.webcamHandler.isActive

\* C20: stop() on a handler with a stream stops the stream's tracks, sets
\* videoElement.srcObject to null and isActive to false; stop() on a handler
\* that never obtained a stream changes nothing; whatever setup() and stop()
\* calls were made, an active handler has a stream attached to the video
\* element.
C20_StopDetachesStream ==
    /\ [](app.webcamHandler.isActive => browser.video.srcObject # Null)
    /\ [][IsWebcamStop(call') =>
            IF app.webcamHandler.stream # Null
            THEN /\ Val(app.webcamHandler.stream) \notin browser'.mediaDevices.live
                 /\ browser'.video.srcObject = Null
                 /\ ~app'.webcamHandler.isActive
            ELSE app' = app /\ browser' = browser]_vars

\* stop() has run on a handler whose setup() had succeeded with the stream it
\* holds
C20_Witness ==
    /\ IsWebcamStop(call)
    /\ app.webcamHandler.stream # Null
    /\ Val(app.webcamHandler.stream) \in browser.mediaDevices.loaded
    /\ Val(app.webcamHandler.stream) \notin browser.mediaDevices.live
    /\ browser.video.srcObject = Null
    /\ ~app.webcamHandler.isActive

\* the call of setup() a step begins or continues, and the camera that
\* switchCamera called it for
SetupCallOf(c) == c.args[1]
SwitchedTo(b, c) == b.switchTo[SetupCallOf(c)]

\* C21: switchCamera(deviceId) stops the current stream first if and only if
\* the handler is active, then sets selectedCameraId to deviceId, then runs
\* setup; the stream is requested for exactly deviceId, and selectedCameraId
\* equals deviceId when setup has settled, whether it succeeded or not.
C21_SwitchCameraSelects ==
    /\ [][call'.fn = "WebcamHandler.switchCamera" =>
            /\ app'.webcamHandler.selectedCameraId = SwitchedTo(browser', call')
            /\ IF app.webcamHandler.isActive
               THEN /\ browser'.video.srcObject = Null
                    /\ Val(app.webcamHandler.stream) \notin browser'.mediaDevices.live
                    /\ ~app'.webcamHandler.isActive
               ELSE /\ browser'.video = browser.video
                    /\ browser'.mediaDevices = browser.mediaDevices]_vars
    /\ []((call.fn = "enumerateDevices settles" /\ SwitchedTo(browser, call) # Null)
            => app.webcamHandler.constraints.video.deviceId = SwitchedTo(browser, call))
    /\ []((SetupSettled(call) /\ SwitchedTo(browser, call) # Null)
            => app.webcamHandler.selectedCameraId = SwitchedTo(browser, call))

----------------------------------------------------------------------------
(* Claims about the fret position, the smoothing and the results *)

\* processFrame reported a hand of each role in the frame of the call c
FrameHasBothHands(c) ==
    /\ FrameHasHandData(c)
    /\ Val(FrameHandData(c)).leftHand # Null
    /\ Val(FrameHandData(c)).rightHand # Null

\* the two hands of the frame of the call c, under the names processHandData
\* reads them by
BothHandsOf(c) ==
    [left |-> Val(FrameHandData(c)).leftHand, right |-> Val(FrameHandData(c)).rightHand]

\* C22: in the application loop, for every frame in which processFrame reports
\* both a mirror-corrected left hand and a mirror-corrected right hand,
\* processHandData recomputes the fret position from the distance between the
\* two wrists of that frame and stores it in lastFretPosition.
C22_FretRecomputedInLoop ==
    [][(FrameCompletes /\ FrameHasBothHands(call') /\ ret' # Null) =>
        LET fret == FretBlock(ma, BothHandsOf(call'))
        IN  /\ ma'.lastFretPosition = fret.lastFretPosition
            /\ ma'.handPositions = fret.handPositions
            /\ Val(ret').fretPosition = fret.lastFretPosition]_vars

\* the call c of processHandData was given a hand of each role
CallHasBothHands(c) ==
    /\ IsProcessHandData(c)
    /\ ArgHandData(c) # Null
    /\ Prop(Val(ArgHandData(c)), "left") # Null
    /\ Prop(Val(ArgHandData(c)), "right") # Null

\* C23: the wrist distance used for the fret position is computed with the
\* plane-angle transform of calculateDistance (y' = y + x * tan(angle - 90
\* degrees)): the fret reading is the one given by the transformed distance
\* between the smoothed wrists at the configured guitar plane angle.
C23_FretUsesPlaneAngle ==
    [][(CallHasBothHands(call') /\ ret' # Null) =>
        LET strumWrist == SmoothedPosition(ma'.handPositions.left)
            fretWrist == SmoothedPosition(ma'.handPositions.right)
        IN  Val(ret').fretPosition =
                FretPosition(CalculateDistanceSq(ht, Some(strumWrist), Some(fretWrist)),
                             Canvas)]_vars

IsSmoothMotion(c) == c.fn = "smoothMotion"

\* the last n elements of the sequence s (all of it when it is shorter)
LastOf(s, n) == SubSeq(s, Max(1, Len(s) - n + 1), Len(s))

\* C25: for each hand the x buffer and the y buffer have the same length, at
\* most smoothingWindow; a call of smoothMotion with a position leaves in the
\* hand's buffers the most recent samples in arrival order (the oldest is
\* evicted first), leaves the other hand's buffers alone and returns the
\* arithmetic mean of the buffers after the push; a call with a missing
\* position returns null and changes no buffer.
C25_SmoothingBuffers ==
    /\ [](\A hand \in {"left", "right"} :
            /\ Len(ma.handPositions[hand].x) = Len(ma.handPositions[hand].y)
            /\ Len(ma.handPositions[hand].x) <= smoothingWindow)
    /\ [][IsSmoothMotion(call') =>
            LET hand == call'.args[1]
                position == call'.args[2]
                other == IF hand = "left" THEN "right" ELSE "left"
                before == ma.handPositions[hand]
                after == ma'.handPositions[hand]
            IN  /\ ma'.handPositions[other] = ma.handPositions[other]
                /\ IF position = Null
                   THEN ret' = Null /\ after = before
                   ELSE /\ after.x = LastOf(Append(before.x, Val(position).x), smoothingWindow)
                        /\ after.y = LastOf(Append(before.y, Val(position).y), smoothingWindow)
                        /\ ret' # Null
                        \* the value is kept in sixths of a pixel
                        /\ Val(ret').x * Len(after.x) = 6 * SumSeq(after.x)
                        /\ Val(ret').y * Len(after.y) = 6 * SumSeq(after.y)]_vars

\* the left buffer is full of three different samples, the newest being the one
\* just pushed, the right buffer holds fewer, and the call returned the mean
\* 115/3 of the x samples
C25_Witness ==
    /\ IsSmoothMotion(call)
    /\ call.args = <<"left", Some(Point(94, 116))>>
    /\ ma.handPositions.left.x = <<10, 11, 94>>
    /\ ma.handPositions.left.y = <<4, 4, 116>>
    /\ Len(ma.handPositions.right.x) = 1
    /\ ret = Some(Point(230, 248))

\* the fretting hand of the tracker h lacks a tip that detectChordFormation
\* measures
TipMissing(h) ==
    /\ h.hands.right # Null
    /\ ~({4, 8, 12, 16} \subseteq DOMAIN Val(h.hands.right).keypoints)

\* C26: with a missing thumb, index, middle or ring tip landmark,
\* detectChordFormation classifies the hand as 'Unknown' (or not at all), never
\* as one of the known chords.
C26_MissingTipIsUnknown ==
    (IsDetectChordFormation(call) /\ TipMissing(ht))
        => (ret = Null \/ Val(ret).name = "Unknown")

\* C27: every result processHandData returns carries strumDetected,
\* strumDirection, strumIntensity, fretPosition and chordType; strumDetected =
\* false implies strumDirection = null and strumIntensity = 0; strumDetected =
\* true implies strumDirection is 'up' or 'down'; at return fretPosition equals
\* lastFretPosition and chordType the cached chord's name, or 'none' when no
\* chord is cached.
C27_ResultPopulated ==
    (IsProcessHandData(call) /\ ret # Null) =>
        LET result == Val(ret)
        IN  /\ DOMAIN result = {"strumDetected", "strumDirection", "strumIntensity",
                                "fretPosition", "chordType"}
            /\ result.strumDetected \in BOOLEAN
            /\ ~result.strumDetected =>
                    result.strumDirection = Null /\ result.strumIntensity = Num(0)
            /\ result.strumDetected =>
                    result.strumDirection \in {Some("up"), Some("down")}
            /\ result.fretPosition = ma.lastFretPosition
            /\ result.chordType = (IF ma.lastDetectedChord = Null THEN "none"
                                   ELSE Val(ma.lastDetectedChord).name)

\* one call has changed the chord, recomputed the fret position and forwarded
\* a strum, and its result carries all three
C27_Witness ==
    /\ IsProcessHandData(call)
    /\ ret # Null
    /\ Val(ret).strumDetected
    /\ Val(ret).strumDirection = Some("up")
    /\ Val(ret).chordType = "G Major"
    /\ ArgChordData(call) # Null
    /\ Val(ArgChordData(call)).name = "G Major"
    /\ Val(ret).fretPosition = 3
    /\ ma.lastFretPosition = 3

\* the callbacks invoked by the last call, by name
CallbackNames(cs) == [i \in 1..Len(cs) |-> cs[i].callback]

\* C30: within one processHandData call that carries a chord change and a
\* forwarded strum, the chord-changed callback is invoked before the strum
\* callback, and the result passed to the strum callback (the one the call
\* returns) already carries the new chord name and the fret position computed
\* for that frame.
C30_ChordBeforeStrum ==
    [][(/\ IsProcessHandData(call')
        /\ ret' # Null
        /\ ChordChanged(ma.lastDetectedChord, ArgChordData(call'))
        /\ Invocations(calls', "onStrumDetected") = 1)
       => LET strumData == calls'[Len(calls')].arg
          IN  /\ calls'[Len(calls')].callback = "onStrumDetected"
              /\ ma.onChordChanged =>
                    CallbackNames(calls') = <<"onChordChanged", "onStrumDetected">>
              /\ strumData = Val(ret')
              /\ strumData.strumDetected
              /\ strumData.chordType = Val(ArgChordData(call')).name
              /\ strumData.fretPosition =
                    FretBlock(ma, Val(ArgHandData(call'))).lastFretPosition]_vars

\* both callbacks were invoked by one call, the chord callback first, in a
\* frame with both hands whose fret position 3 and new chord 'C Major' the
\* strum callback was given
C30_Witness ==
    /\ IsProcessHandData(call)
    /\ CallHasBothHands(call)
    /\ Len(calls) = 2
    /\ calls[1] = [callback |-> "onChordChanged",
                   arg |-> [name |-> "C Major", confidence |-> <<7, 10>>]]
    /\ calls[2].callback = "onStrumDetected"
    /\ calls[2].arg.chordType = "C Major"
    /\ calls[2].arg.fretPosition = 3
    /\ calls[2].arg.strumDirection = Some("down")

----------------------------------------------------------------------------
(* Claims about stopping the frame loop *)

\* the frame loop is quiescent: no call of processVideoFrame is in flight, no
\* frame callback is pending and no handle is stored
Quiescent ==
    /\ InFlight(browser) = 0
    /\ Pending(browser) = 0
    /\ app.animationFrameId = Null

\* C28: after stopProcessing, if startProcessing is not called again, the
\* frame loop eventually becomes quiescent: any in-flight frame finishes, no
\* next-frame callback is pending from some point on, and animationFrameId is
\* null from some point on.
C28_QuiescentAfterStop == <>[](~app.processingActive) => <>[]Quiescent

----------------------------------------------------------------------------
(* Claims about HandTracking.setup *)

\* a call of HandTracking.setup() has settled; c.args[2] names the step it
\* settled after and c.args[3] what createDetector settles with for the
\* fallback configuration
TrackerSetupSettled(c) == c.fn = "HandTracking.setup settles"

\* the step takes the call c of setup() from its last failed creation with a
\* mediapipe configuration, three attempts with the primary one made, through
\* the catch blocks
FailsAfterThreeAttempts(c) ==
    /\ browser.trackerSetup[c].awaits \in {"createDetector", "createDetector minimal"}
    /\ browser.trackerSetup[c].attempts = 3
    /\ TrackerSetupSettled(call')
    /\ call'.args[1] = c
    /\ call'.args[2] = "catch"

\* C29: setup makes at most three attempts to create the detector with the
\* primary configuration; if all of them fail while createDetector succeeds
\* for the fallback configuration, setup returns true with the fallback
\* detector stored and isRunning = true; setup throws only when the fallback
\* creation fails as well.
C29_SetupRecoversWithFallback ==
    /\ [](\A c \in SetupCalls : browser.trackerSetup[c].attempts <= 3)
    /\ [][\A c \in SetupCalls :
            (FailsAfterThreeAttempts(c) /\ call'.args[3] = "detector")
                => /\ ret' = Resolved("true")
                   /\ ht'.detector
                   /\ ht'.isRunning]_vars
    /\ []((TrackerSetupSettled(call) /\ ret = Rejected("Error"))
            => call.args[3] \in {"nothing", "rejects"})

====
